---------------------------- MODULE Spec2Model ----------------------------
(***************************************************************************)
(* A model of the mcp-probe engine: the check harness (suites/base.py),    *)
(* the JSON-RPC client (client.py), the suite orchestrator and the exit    *)
(* code (runner.py).  Each component has its own specification over the    *)
(* shared variables; a component that a specification does not exercise    *)
(* stays in its constructed state.                                         *)
(***************************************************************************)
EXTENDS Integers, Sequences, FiniteSets, TLC

VARIABLES
    \* ---- BaseSuite.run (suites/base.py) ----
    suite,          \* the suite whose run() is in progress
    checks,         \* run(): the list self._get_checks() returned, iterated by the loop
    results,        \* run(): the local list `results`
    h_pc,           \* run(): "idle" before the call, "loop" while iterating, "returned" after line 94
    suite_result,   \* the SuiteResult run() returned, None before
    ends,           \* history: how each executed check body ended, in order
    devs,           \* history: number of bodies that did not end in a plain pass
    \* ---- MCPClient (client.py) ----
    next_id,                  \* MCPClient._next_id
    assigned,                 \* history: the ids _send_request took (msg_id, line 22), in order
    received_notifications,   \* MCPClient.received_notifications
    c_pc,                     \* "idle", "waiting" (inside _receive_response), "returned", "raised"
    c_op,                     \* the operation in progress: "request" or "raw"
    expected_id,              \* _receive_response's expected_id
    returned,                 \* what the last operation returned
    sent,                     \* messages handed to transport.send, in order
    delivered,                \* history: messages transport.receive returned, in order
    c_recv,                   \* history: how each transport.receive of the operation in
                              \* progress ended, a message or [raised |-> exception]
    \* ---- Runner (runner.py) ----
    explicitly_requested,     \* Runner._explicitly_requested
    transport_name,           \* Runner._transport_name
    oauth_enabled,            \* Runner._oauth_enabled
    server_url,               \* Runner._server_url ("" for None)
    capabilities,             \* MCPClient.capabilities of the runner's client
    report,                   \* the ProbeReport under construction
    r_tools,                  \* Runner._tools
    r_resources,              \* Runner._resources
    suite_tools,              \* ToolsSuite._tools of the tools suite of this run
    handed,                   \* history: the lists handed to the suites constructed with one
    r_pc,                     \* position in Runner.run: the step to take next, "returned" or "raised"
    executed,                 \* history: suites whose run() the runner awaited, in order
    init_end,                 \* history: what the server did in the lifecycle suite
    faults,                   \* history: number of check bodies that deviated in this run
    \* ---- compute_exit_code (runner.py) ----
    e_report,                 \* the report argument
    e_strict,                 \* the strict argument
    exit_code,                \* <<>> before the call, then <<the value returned>>
    \* ---- MCPClient._paginated_list (client.py) ----
    p_call,                   \* the arguments <<method, key>>
    p_pc,                     \* "idle", "send" (top of the loop), "waiting", "returned", "raised"
    items,                    \* the local list `items`
    cursor,                   \* the local `cursor`
    pages,                    \* history: the responses _send_request returned, in order
    \* ---- MCPClient.initialize (client.py) ----
    i_pc,                     \* "idle", "waiting" (for the response), "returned", "raised"
    server_info,              \* MCPClient.server_info
    i_resp,                   \* history: <<the response the current call received>>, <<>> if none
    i_before,                 \* history: server_info, capabilities and Len(sent) when the
                              \* current call began
    \* ---- StdioTransport (transport/stdio.py) and its child process ----
    child,                    \* _process: "none", "running", "exited"
    term_delay,               \* history: seconds the child took to exit after stop's SIGTERM
    returncode,               \* _process.returncode, <<>> for None
    t_stdout,                 \* lines the child wrote to stdout and nobody read yet
    t_eof,                    \* the child's stdout is closed
    t_read,                   \* history: the lines readline returned, in order
    non_json_lines,           \* StdioTransport.non_json_lines
    t_out,                    \* history: how each call of receive ended
    t_running,                \* BaseTransport._running
    return_code,              \* StdioTransport.return_code, <<>> for None
    stderr_task,              \* _stderr_task: "none", "running", "finished", "failed"
    signals,                  \* history: the signals the last stop tried to send
    st_pc,                    \* the last stop: "idle", "returned", "raised"
    \* ---- HttpTransport (transport/http.py) and its server ----
    custom_headers,           \* HttpTransport._custom_headers, a sequence of <<name, value>>
    session_id,               \* HttpTransport.session_id, <<>> for None
    pending_messages,         \* HttpTransport._pending_messages
    posts,                    \* history: the headers of each POST as urllib sent them
    responses,                \* history: what the server answered to each POST
    send_out,                 \* history: how each call of send ended
    http_out,                 \* history: how each call of receive ended
    \* ---- the command line (cli.py _run and main) on a stdio target ----
    cli_pc,                   \* "parsed", "running" (inside runner.run), "stopping" (inside
                              \* the finally's transport.stop), "exited"
    cli_suites,               \* the names given with --suite, <<>> for none
    trace,                    \* history: what was called on the main transport, in order
    pending,                  \* what the try block ended with, for after the finally
    interrupts,               \* SIGINTs received
    emitted,                  \* the report was written
    sys_exit,                 \* the process exit code, <<>> while running
    \* ---- MCPClient._receive_response, one statement at a time ----
    w_msg,                    \* the local msg of the loop, <<>> before receive returns
    \* ---- parse_sse_stream (transport/sse.py), one line of input per step ----
    sse_src,                  \* history: <<>> for raw lines, <<xs>> for the events serialized
    sse_lines,                \* the lines not yet taken from the iterable
    sse_read,                 \* history: the lines taken, in order
    event_type,               \* local event_type, <<>> for None
    data_buffer,              \* local data_buffer
    event_id,                 \* local event_id, <<>> for None
    sse_out,                  \* history: the events yielded, in order
    sse_pc,                   \* "idle", "parsing", "done"
    \* ---- generate_valid_args (schema_utils.py) ----
    g_schema,                 \* the schema passed, <<>> before any call
    g_args,                   \* <<the value returned>>, <<>> before the call returns
    \* ---- the list check of a suite (TOOL-001, RES-001, PROMPT-001) and its
    \*      pagination check (TOOL-008, RES-005, PROMPT-004) ----
    first_page_had_cursor,    \* the suite's _first_page_had_cursor
    captured,                 \* the suite's _tools, _resources or _prompts
    page_check,               \* <<status of the pagination check>>, <<>> before it ran
    \* ---- TasksSuite.check_task_008 (suites/tasks.py) ----
    tasks_caps,               \* local tasks_caps: caps.get("tasks", {})
    task_tools,               \* the suite's _tools, each with the args generate_valid_args gives
    task_pc,                  \* "start", "calling", "sleeping", "polling", "fetch", "fetching", "ended"
    task_status,              \* local status, <<>> before the call returned
    polled,                   \* history: the status each tasks/get poll reported
    task_end,                 \* <<how the check ended>>, <<>> before
    \* ---- SUB-001 and SUB-002 of the notifications suite, and what the runner
    \*      hands to the suite (suites/notifications.py, runner.py) ----
    res_caps,                 \* caps.get("resources") of the main client
    res_001,                  \* <<status of RES-001>> of this run, <<>> when the suite did not run
    suite_resources,          \* ResourcesSuite._resources after the suite ran
    run_resources,            \* Runner._resources
    n_resources,              \* NotificationsSuite._resources
    subscribed_uri,           \* NotificationsSuite._subscribed_uri, <<>> for None
    sub_pc,                   \* "resources", "notifications", "sub001", "subscribing", "sub002", "unsubscribing", "ended"
    sub_ends,                 \* the statuses in which SUB-001 and SUB-002 ended, in order
    \* ---- a receive that another task awaits while the transport is stopped
    \*      (transport/stdio.py, transport/http.py) ----
    pend_kind,                \* "stdio" or "http": the transport
    recv_pc,                  \* "idle", "pending", "ended": the awaited receive
    recv_out,                 \* <<how the receive ended, and whether stop had been called>>
    http_stop,                \* <<what HttpTransport.stop did>>, <<>> before it was called
    \* ---- the lifecycle suite on the main client, and the rest of the run
    \*      (suites/lifecycle.py, runner.py) ----
    life_pc,                  \* 1..6: INIT-00n is next or running; 7: the later suites; 8: returned
    init_response,            \* LifecycleSuite._init_response, <<>> for None
    own,                      \* the transports obtained from the transport factory, in order
    own_pc,                   \* "idle", "try", "finally", "record": INIT-005 or INIT-006
    own_end,                  \* <<how the body of INIT-005 or INIT-006 ends>>
    main_before,              \* history: the main client when INIT-005 or INIT-006 began
    life_results              \* the results recorded, each with the main client at that time

harnessVars == <<suite, checks, results, h_pc, suite_result, ends, devs>>
clientVars  == <<next_id, assigned, received_notifications, c_pc, c_op, expected_id,
                 returned, sent, delivered, c_recv>>
runnerVars  == <<explicitly_requested, transport_name, oauth_enabled, server_url, capabilities,
                 report, r_tools, r_resources, suite_tools, handed, r_pc, executed, init_end, faults>>
exitVars    == <<e_report, e_strict, exit_code>>
pagingVars  == <<p_call, p_pc, items, cursor, pages>>
initVars    == <<i_pc, server_info, i_resp, i_before>>
stdioVars   == <<child, term_delay, returncode, t_stdout, t_eof, t_read, non_json_lines, t_out,
                 t_running, return_code, stderr_task, signals, st_pc>>
httpVars    == <<custom_headers, session_id, pending_messages, posts, responses, send_out,
                 http_out>>
cliVars     == <<cli_pc, cli_suites, trace, pending, interrupts, emitted, sys_exit>>
waitVars    == <<w_msg>>
sseVars     == <<sse_src, sse_lines, sse_read, event_type, data_buffer, event_id, sse_out, sse_pc>>
schemaVars  == <<g_schema, g_args>>
listVars    == <<first_page_had_cursor, captured, page_check>>
taskVars    == <<tasks_caps, task_tools, task_pc, task_status, polled, task_end>>
subVars == <<res_caps, res_001, suite_resources, run_resources, n_resources,
                 subscribed_uri, sub_pc, sub_ends>>
pendVars == <<pend_kind, recv_pc, recv_out, http_stop>>
lifeVars == <<life_pc, init_response, own, own_pc, own_end, main_before, life_results>>
vars == <<harnessVars, clientVars, runnerVars, exitVars, pagingVars, initVars, stdioVars, httpVars,
          cliVars, waitVars, sseVars, schemaVars, listVars, taskVars, subVars, pendVars, lifeVars>>

\* What the actions of one component leave alone: the other components.
exceptHarness == <<clientVars, runnerVars, exitVars, pagingVars, initVars, stdioVars, httpVars, cliVars, waitVars, sseVars, schemaVars, listVars, taskVars, subVars, pendVars, lifeVars>>
exceptClient  == <<harnessVars, runnerVars, exitVars, pagingVars, initVars, stdioVars, httpVars, cliVars, waitVars, sseVars, schemaVars, listVars, taskVars, subVars, pendVars, lifeVars>>
exceptRunner  == <<harnessVars, clientVars, exitVars, pagingVars, initVars, stdioVars, httpVars, cliVars, waitVars, sseVars, schemaVars, listVars, taskVars, subVars, pendVars, lifeVars>>
exceptExit    == <<harnessVars, clientVars, runnerVars, pagingVars, initVars, stdioVars, httpVars, cliVars, waitVars, sseVars, schemaVars, listVars, taskVars, subVars, pendVars, lifeVars>>
exceptPaging  == <<harnessVars, runnerVars, exitVars, initVars, stdioVars, httpVars, cliVars, waitVars, sseVars, schemaVars, listVars, taskVars, subVars, pendVars, lifeVars>>
exceptStdio   == <<harnessVars, clientVars, runnerVars, exitVars, pagingVars, initVars, httpVars,
                   cliVars, waitVars, sseVars, schemaVars, listVars, taskVars, subVars, pendVars, lifeVars>>
exceptHttp    == <<harnessVars, clientVars, runnerVars, exitVars, pagingVars, initVars, stdioVars,
                   cliVars, waitVars, sseVars, schemaVars, listVars, taskVars, subVars, pendVars, lifeVars>>
\* The command line drives the main transport's child and leaves the rest of
\* the transport to the suites.
exceptCli     == <<harnessVars, clientVars, runnerVars, exitVars, pagingVars, initVars, httpVars,
                   waitVars, sseVars, schemaVars, listVars,
                   returncode, t_stdout, t_eof, t_read, non_json_lines, t_out, t_running,
                   return_code, stderr_task, st_pc, taskVars, subVars, pendVars, lifeVars>>
\* initialize writes MCPClient.capabilities, sends through the client, and
\* leaves the rest of the runner and of the client alone.
exceptInit    == <<harnessVars, exitVars, pagingVars, stdioVars, httpVars, cliVars, waitVars,
                   sseVars, schemaVars, listVars, explicitly_requested, transport_name, oauth_enabled, server_url,
                   report, r_tools, r_resources, suite_tools, handed, r_pc, executed,
                   init_end, faults,
                   received_notifications, c_pc, c_op, expected_id, returned, delivered, c_recv, taskVars, subVars, pendVars, lifeVars>>
\* The loop of _receive_response writes its local msg and the client.
exceptWait    == <<harnessVars, runnerVars, exitVars, pagingVars, initVars, stdioVars, httpVars,
                   cliVars, sseVars, schemaVars, listVars, taskVars, subVars, pendVars, lifeVars>>
exceptSse     == <<harnessVars, clientVars, runnerVars, exitVars, pagingVars, initVars, stdioVars,
                   httpVars, cliVars, waitVars, schemaVars, listVars, taskVars, subVars, pendVars, lifeVars>>
exceptSchema  == <<harnessVars, clientVars, runnerVars, exitVars, pagingVars, initVars, stdioVars,
                   httpVars, cliVars, waitVars, sseVars, listVars, taskVars, subVars, pendVars, lifeVars>>
\* A list check pages through the client as _paginated_list does.
exceptList    == <<harnessVars, runnerVars, exitVars, initVars, stdioVars, httpVars, cliVars,
                   waitVars, sseVars, schemaVars, taskVars, subVars, pendVars, lifeVars>>
\* TASK-008 sends through the client.
exceptTask    == <<harnessVars, runnerVars, exitVars, pagingVars, initVars, stdioVars, httpVars,
                   cliVars, waitVars, sseVars, schemaVars, listVars, subVars, pendVars, lifeVars>>
\* SUB-001 and SUB-002 send through the client.
exceptSub     == <<harnessVars, runnerVars, exitVars, pagingVars, initVars, stdioVars, httpVars,
                   cliVars, waitVars, sseVars, schemaVars, listVars, taskVars, pendVars, lifeVars>>
\* The awaited receive reads the stdout of the child or the queue.
exceptPending == <<harnessVars, clientVars, runnerVars, exitVars, pagingVars, initVars, cliVars,
                   waitVars, sseVars, schemaVars, listVars, taskVars, subVars, lifeVars>>
\* The lifecycle suite sends through the main client and calls its initialize.
exceptLifecycle == <<harnessVars, runnerVars, exitVars, pagingVars, stdioVars, httpVars, cliVars,
                     waitVars, sseVars, schemaVars, listVars, taskVars, subVars, pendVars>>

(***************************************************************************)
(* types.py                                                                *)
(***************************************************************************)
Status   == {"PASS", "FAIL", "WARN", "SKIP", "INFO"}
Severity == {"CRITICAL", "ERROR", "WARNING", "INFO"}

\* Python's None (no detail, no result).
None == "None"

(***************************************************************************)
(* The check catalogue: the @check declarations of every suite, in the     *)
(* order the source declares them.  A check identifier "INIT-005" is the   *)
(* pair <<"INIT", 5>>: all identifiers are a prefix, a hyphen and three    *)
(* zero-padded digits.                                                     *)
(***************************************************************************)
\* The description text declared with a check is written <<"text", id>>; the
\* empty string is <<>>.
Meta(prefix, num, severity) ==
    [check_id |-> <<prefix, num>>, description |-> <<"text", <<prefix, num>>>>,
     severity |-> severity]

\* runner.py _VALID_SUITE_NAMES: the identifiers under which suites are selected.
_VALID_SUITE_NAMES ==
    {"lifecycle", "tools", "resources", "prompts", "jsonrpc",
     "notifications", "tasks", "auth", "edge"}

\* The checks declared by the suite class that the runner selects as `s`
\* (LifecycleSuite, JsonRpcSuite, ToolsSuite, ResourcesSuite, PromptsSuite,
\* NotificationsSuite, TasksSuite, EdgeCasesSuite, AuthSuite).
Declared(s) ==
    CASE s = "lifecycle" ->
            << Meta("INIT", 5, "WARNING"), Meta("INIT", 6, "WARNING"),
               Meta("INIT", 1, "CRITICAL"), Meta("INIT", 2, "CRITICAL"),
               Meta("INIT", 3, "CRITICAL"), Meta("INIT", 4, "CRITICAL") >>
      [] s = "jsonrpc" ->
            << Meta("RPC", 1, "CRITICAL"), Meta("RPC", 2, "CRITICAL"),
               Meta("RPC", 3, "ERROR"), Meta("RPC", 4, "ERROR"),
               Meta("RPC", 5, "WARNING"), Meta("RPC", 6, "INFO"), Meta("RPC", 7, "INFO") >>
      [] s = "tools" ->
            << Meta("TOOL", 1, "CRITICAL"), Meta("TOOL", 2, "CRITICAL"),
               Meta("TOOL", 3, "ERROR"), Meta("TOOL", 4, "ERROR"), Meta("TOOL", 5, "ERROR"),
               Meta("TOOL", 6, "WARNING"), Meta("TOOL", 7, "INFO"),
               Meta("TOOL", 8, "WARNING") >>
      [] s = "resources" ->
            << Meta("RES", 1, "CRITICAL"), Meta("RES", 2, "ERROR"), Meta("RES", 3, "ERROR"),
               Meta("RES", 4, "WARNING"), Meta("RES", 5, "WARNING") >>
      [] s = "prompts" ->
            << Meta("PROMPT", 1, "CRITICAL"), Meta("PROMPT", 2, "ERROR"),
               Meta("PROMPT", 3, "ERROR"), Meta("PROMPT", 4, "WARNING") >>
      [] s = "notifications" ->
            << Meta("NOTIF", 1, "CRITICAL"), Meta("NOTIF", 2, "ERROR"),
               Meta("NOTIF", 3, "ERROR"), Meta("NOTIF", 4, "ERROR"),
               Meta("NOTIF", 5, "WARNING"), Meta("SUB", 1, "ERROR"),
               Meta("SUB", 2, "ERROR"), Meta("SUB", 3, "WARNING") >>
      [] s = "tasks" ->
            << Meta("TASK", 1, "CRITICAL"), Meta("TASK", 2, "ERROR"),
               Meta("TASK", 3, "ERROR"), Meta("TASK", 4, "WARNING"),
               Meta("TASK", 5, "ERROR"), Meta("TASK", 6, "WARNING"),
               Meta("TASK", 7, "ERROR"), Meta("TASK", 8, "ERROR") >>
      [] s = "edge" ->
            << Meta("EDGE", 1, "WARNING"), Meta("EDGE", 2, "WARNING"),
               Meta("EDGE", 3, "INFO"), Meta("EDGE", 4, "WARNING"), Meta("EDGE", 5, "INFO") >>
      [] s = "auth" ->
            << Meta("AUTH", 1, "INFO"), Meta("AUTH", 2, "INFO"),
               Meta("AUTH", 3, "INFO"), Meta("AUTH", 4, "ERROR") >>

\* Suite classes named as the runner selects them.
SuiteNameAsSelected(s) == s

\* The `name` attribute of the suite class selected as `s`.
SuiteName(s) == IF s = "edge" THEN "edge_cases" ELSE s

(***************************************************************************)
(* BaseSuite._get_checks: the declared checks sorted by check_id.  Python  *)
(* compares the identifier strings character by character; for             *)
(* "<PREFIX>-<3 digits>" that is the order of the prefixes, then of the    *)
(* numbers.  PrefixOrder lists the prefixes in string order.               *)
(***************************************************************************)
PrefixOrder ==
    <<"AUTH", "EDGE", "INIT", "NOTIF", "PROMPT", "RES", "RPC", "SUB", "TASK", "TOOL">>

PrefixRank(p) == CHOOSE i \in 1..Len(PrefixOrder) : PrefixOrder[i] = p

IdLess(a, b) ==
    \/ PrefixRank(a[1]) < PrefixRank(b[1])
    \/ a[1] = b[1] /\ a[2] < b[2]

\* Insert m into the sorted list `sorted`, after every entry not greater (stable).
RECURSIVE InsertSorted(_, _)
InsertSorted(m, sorted) ==
    IF sorted = <<>> THEN <<m>>
    ELSE IF IdLess(m.check_id, Head(sorted).check_id)
         THEN <<m>> \o sorted
         ELSE <<Head(sorted)>> \o InsertSorted(m, Tail(sorted))

\* A harness that runs the checks in the order of their declaration.
DeclarationOrder(metas) == metas

\* base.py line 46: checks.sort(key=check_id)
RECURSIVE SortById(_)
SortById(metas) ==
    IF metas = <<>> THEN <<>>
    ELSE InsertSorted(metas[Len(metas)], SortById(SubSeq(metas, 1, Len(metas) - 1)))

_get_checks(s) == SortById(Declared(s))

(***************************************************************************)
(* suites/base.py: the result helpers and the ways a check body can end.   *)
(***************************************************************************)
\* The identifier the helpers put in the result they build (check_id="").
NoId == <<"", 0>>

\* types.py CheckResult; on the lines that build one in BaseSuite.run
\* (66-72, 75-82, 86-93) the description is the one declared with check_id,
\* in the helpers it is "".
CheckResult(check_id, status, severity, details) ==
    [check_id |-> check_id,
     description |-> IF check_id = <<"", 0>> THEN <<>> ELSE <<"text", check_id>>,
     status |-> status, severity |-> severity, details |-> details]

pass_check(details) == CheckResult(NoId, "PASS", "INFO", details)
fail_check(details) == CheckResult(NoId, "FAIL", "INFO", details)
warn_check(details) == CheckResult(NoId, "WARN", "INFO", details)
info_check(details) == CheckResult(NoId, "INFO", "INFO", details)

\* How a check body ends.
Returns(result) == [kind |-> "return", result |-> result]
ReturnsNone     == [kind |-> "none"]
Skips(reason)   == [kind |-> "skip", reason |-> reason]
Raises(exc, str) == [kind |-> "raise", exc |-> exc, str |-> str]

PlainPass == Returns(pass_check(None))

\* asyncio.TimeoutError() has the empty string form.
TimeoutError    == Raises("TimeoutError", "")
ConnectionError == Raises("ConnectionError", "Server process closed stdout (EOF)")

\* A user interrupt surfacing inside a check body; not a subclass of Exception.
KeyboardInterrupt == Raises("KeyboardInterrupt", "")

\* The exception classes that derive from BaseException only.
BaseExceptionOnly == {"KeyboardInterrupt", "CancelledError", "SystemExit"}

BodyEnds ==
    { PlainPass, Returns(pass_check("detail")), Returns(fail_check("detail")),
      Returns(warn_check("detail")), Returns(info_check("detail")),
      ReturnsNone, Skips(""), Skips("reason"),
      TimeoutError, ConnectionError, Raises("KeyError", "'name'"),
      KeyboardInterrupt }

\* run() lines 73 and 83: `except SkipCheck` and `except Exception` catch the
\* exception; anything else leaves run().
CaughtByHarness(end) == end.kind = "raise" => end.exc \notin BaseExceptionOnly

\* A harness that reports a crashed check as passed.
HarnessRecordSwallows(meta, end) ==
    CASE end.kind = "return" ->
            [end.result EXCEPT !.check_id = meta.check_id,
                               !.description = meta.description,
                               !.severity = meta.severity]
      [] end.kind = "none" ->
            CheckResult(meta.check_id, "PASS", meta.severity, None)
      [] end.kind = "skip" ->
            CheckResult(meta.check_id, "SKIP", meta.severity,
                        IF end.reason # "" THEN end.reason ELSE None)
      [] end.kind = "raise" ->
            CheckResult(meta.check_id, "PASS", meta.severity, end.str)

\* A harness that leaves the severity of a returned result as it is.
HarnessRecordKeepsSeverity(meta, end) ==
    CASE end.kind = "return" ->
            [end.result EXCEPT !.check_id = meta.check_id, !.description = meta.description]
      [] end.kind = "none" ->
            CheckResult(meta.check_id, "PASS", meta.severity, None)
      [] end.kind = "skip" ->
            CheckResult(meta.check_id, "SKIP", meta.severity,
                        IF end.reason # "" THEN end.reason ELSE None)
      [] end.kind = "raise" ->
            CheckResult(meta.check_id, "FAIL", meta.severity, end.str)

\* BaseSuite.run lines 55-93: the CheckResult recorded for one check.
HarnessRecord(meta, end) ==
    CASE end.kind = "return" ->
            [end.result EXCEPT !.check_id = meta.check_id,
                               !.description = meta.description,
                               !.severity = meta.severity]
      [] end.kind = "none" ->
            CheckResult(meta.check_id, "PASS", meta.severity, None)
      [] end.kind = "skip" ->
            CheckResult(meta.check_id, "SKIP", meta.severity,
                        IF end.reason # "" THEN end.reason ELSE None)
      [] end.kind = "raise" ->
            CheckResult(meta.check_id, "FAIL", meta.severity, end.str)

\* types.py SuiteResult
SuiteResult(name, crs) == [name |-> name, checks |-> crs]

\* A dict of flags: its keys, and the keys whose value is True.
Dict(keys, true) == [keys |-> keys, true |-> true]
EmptyDict == Dict({}, {})

\* types.py ProbeReport: the fields the runner fills in after construction.
ProbeReport(caps, suites) == [capabilities |-> caps, suites |-> suites]

\* A JSON object in the place of `capabilities`: the keys it has, and whether
\* its "resources" entry is an object whose "subscribe" is truthy.
Object(keys, subscribe) == [kind |-> "object", keys |-> keys, subscribe |-> subscribe]

\* A JSON value of another kind in that place: "null", "number", "string", "array".
NotObject(kind) == [kind |-> kind]

(***************************************************************************)
(* Constructed (idle) states of the components.                            *)
(***************************************************************************)
HarnessIdle ==
    /\ suite = "lifecycle"
    /\ checks = <<>>
    /\ results = <<>>
    /\ h_pc = "idle"
    /\ suite_result = None
    /\ ends = <<>>
    /\ devs = 0

\* What an operation that returns None returns (and the value before any return).
ReturnedNone == [none |-> TRUE]

\* MCPClient.__init__
ClientIdle ==
    /\ next_id = 1
    /\ assigned = <<>>
    /\ received_notifications = <<>>
    /\ c_pc = "idle"
    /\ c_op = None
    /\ expected_id = 0
    /\ returned = ReturnedNone
    /\ c_recv = <<>>
    /\ sent = <<>>
    /\ delivered = <<>>
    /\ w_msg = <<>>

RunnerIdle ==
    /\ explicitly_requested = {}
    /\ transport_name = "stdio"
    /\ oauth_enabled = FALSE
    /\ server_url = ""
    /\ capabilities = Object({}, FALSE)
    /\ report = ProbeReport(EmptyDict, <<>>)
    /\ r_tools = <<>>
    /\ r_resources = <<>>
    /\ suite_tools = <<>>
    /\ handed = <<>>
    /\ r_pc = "idle"
    /\ executed = <<>>
    /\ init_end = <<>>
    /\ faults = 0

ExitIdle ==
    /\ e_report = ProbeReport(EmptyDict, <<>>)
    /\ e_strict = FALSE
    /\ exit_code = <<>>

\* _paginated_list has not been called.
PagingIdle ==
    /\ p_call = <<"tools/list", "tools">>
    /\ p_pc = "idle"
    /\ items = <<>>
    /\ cursor = None
    /\ pages = <<>>

\* initialize has not been called (client.py line 17).
InitializeIdle ==
    /\ i_pc = "idle"
    /\ server_info = None
    /\ i_resp = <<>>
    /\ i_before = <<>>

\* StdioTransport.__init__ (stdio.py lines 14-20): no process, nothing read.
StdioIdle ==
    /\ child = "none"
    /\ term_delay = 0
    /\ returncode = <<>>
    /\ t_stdout = <<>>
    /\ t_eof = FALSE
    /\ t_read = <<>>
    /\ non_json_lines = 0
    /\ t_out = <<>>
    /\ t_running = FALSE
    /\ return_code = <<>>
    /\ stderr_task = "none"
    /\ signals = <<>>
    /\ st_pc = "idle"

\* HttpTransport.__init__ (http.py lines 20-30) without custom headers.
HttpIdle ==
    /\ custom_headers = <<>>
    /\ session_id = <<>>
    /\ pending_messages = <<>>
    /\ posts = <<>>
    /\ responses = <<>>
    /\ send_out = <<>>
    /\ http_out = <<>>

\* The command line before main is entered.
CliIdle ==
    /\ cli_pc = "parsed"
    /\ cli_suites = <<>>
    /\ trace = <<>>
    /\ pending = "nothing"
    /\ interrupts = 0
    /\ emitted = FALSE
    /\ sys_exit = <<>>

\* Every component but those in `active` is in its state after construction.
\* No call of parse_sse_stream.
SseIdle ==
    /\ sse_src = <<>>
    /\ sse_lines = <<>>
    /\ sse_read = <<>>
    /\ event_type = <<>>
    /\ data_buffer = <<>>
    /\ event_id = <<>>
    /\ sse_out = <<>>
    /\ sse_pc = "idle"

\* No call of generate_valid_args.
SchemaIdle ==
    /\ g_schema = <<>>
    /\ g_args = <<>>

\* The suite after __init__ (tools.py lines 25-28).
ListIdle ==
    /\ first_page_had_cursor = FALSE
    /\ captured = <<>>
    /\ page_check = <<>>

\* TASK-008 has not begun.
TaskIdle ==
    /\ tasks_caps = <<>>
    /\ task_tools = <<>>
    /\ task_pc = "start"
    /\ task_status = <<>>
    /\ polled = <<>>
    /\ task_end = <<>>

\* No resources suite and no notifications suite yet.
SubIdle ==
    /\ res_caps = [kind |-> "absent"]
    /\ res_001 = <<>>
    /\ suite_resources = <<>>
    /\ run_resources = <<>>
    /\ n_resources = <<>>
    /\ subscribed_uri = <<>>
    /\ sub_pc = "resources"
    /\ sub_ends = <<>>

\* No receive awaited, no stop called.
PendingIdle ==
    /\ pend_kind = "stdio"
    /\ recv_pc = "idle"
    /\ recv_out = <<>>
    /\ http_stop = <<>>

\* LifecycleSuite.__init__ (lifecycle.py lines 18-26).
LifecycleIdle ==
    /\ life_pc = 1
    /\ init_response = <<>>
    /\ own = <<>>
    /\ own_pc = "idle"
    /\ own_end = <<>>
    /\ main_before = <<>>
    /\ life_results = <<>>

IdleExcept(active) ==
    /\ IF "harness" \in active THEN TRUE ELSE HarnessIdle
    /\ IF "client" \in active THEN TRUE ELSE ClientIdle
    /\ IF "runner" \in active THEN TRUE ELSE RunnerIdle
    /\ IF "exit" \in active THEN TRUE ELSE ExitIdle
    /\ IF "paging" \in active THEN TRUE ELSE PagingIdle
    /\ IF "initialize" \in active THEN TRUE ELSE InitializeIdle
    /\ IF "stdio" \in active THEN TRUE ELSE StdioIdle
    /\ IF "http" \in active THEN TRUE ELSE HttpIdle
    /\ IF "cli" \in active THEN TRUE ELSE CliIdle
    /\ IF "sse" \in active THEN TRUE ELSE SseIdle
    /\ IF "schema" \in active THEN TRUE ELSE SchemaIdle
    /\ IF "list" \in active THEN TRUE ELSE ListIdle
    /\ IF "task" \in active THEN TRUE ELSE TaskIdle
    /\ IF "sub" \in active THEN TRUE ELSE SubIdle
    /\ IF "pending" \in active THEN TRUE ELSE PendingIdle
    /\ IF "lifecycle" \in active THEN TRUE ELSE LifecycleIdle

(***************************************************************************)
(* BaseSuite.run: one action per iteration of the loop over the checks,    *)
(* one for the return.  The body of a check is the environment here: it    *)
(* ends in any of BodyEnds.  At most MaxDeviations bodies of one run end    *)
(* otherwise than in a plain pass.                                         *)
(***************************************************************************)
MaxDeviations == 2

\* A harness whose `except Exception` clause forgets to append its result.
RecordedUnlessRaised(res, meta, end) ==
    IF end.kind = "raise" THEN res ELSE Append(res, HarnessRecord(meta, end))

\* run() lines 56-93: the list `results` after the check `meta` ended in `end`.
Recorded(res, meta, end) == Append(res, HarnessRecord(meta, end))

InitHarness ==
    /\ suite \in _VALID_SUITE_NAMES
    /\ checks = _get_checks(suite)
    /\ results = <<>>
    /\ h_pc = "loop"
    /\ suite_result = None
    /\ ends = <<>>
    /\ devs = 0
    /\ IdleExcept({"harness"})

\* run() lines 51-93: the next check in _get_checks order runs and its result is recorded.
RunCheck ==
    /\ h_pc = "loop"
    /\ Len(ends) < Len(checks)
    /\ \E end \in BodyEnds :
          /\ CaughtByHarness(end)
          /\ end # PlainPass => devs < MaxDeviations
          /\ results' = Recorded(results, checks[Len(ends) + 1], end)
          /\ ends' = Append(ends, end)
          /\ devs' = IF end # PlainPass THEN devs + 1 ELSE devs
    /\ UNCHANGED <<suite, checks, h_pc, suite_result>>
    /\ UNCHANGED exceptHarness

\* run() line 57: the body raises what no except clause of run() catches.
RunCheckPropagates ==
    /\ h_pc = "loop"
    /\ Len(ends) < Len(checks)
    /\ \E end \in BodyEnds :
          /\ ~CaughtByHarness(end)
          /\ devs < MaxDeviations
          /\ ends' = Append(ends, end)
          /\ devs' = devs + 1
    /\ h_pc' = "raised"
    /\ UNCHANGED <<suite, checks, results, suite_result>>
    /\ UNCHANGED exceptHarness

\* run() line 94
ReturnSuite ==
    /\ h_pc = "loop"
    /\ Len(ends) = Len(checks)
    /\ suite_result' = SuiteResult(SuiteName(suite), results)
    /\ h_pc' = "returned"
    /\ UNCHANGED <<suite, checks, results, ends, devs>>
    /\ UNCHANGED exceptHarness

NextHarness == RunCheck \/ RunCheckPropagates \/ ReturnSuite

SpecHarness == InitHarness /\ [][NextHarness]_vars

(***************************************************************************)
(* MCPClient (client.py) over a transport.  A message is a record; as in   *)
(* the code, whether it is a response or a notification is whether it has  *)
(* the field "id".  The transport and the server behind it are the         *)
(* environment: each receive returns any message, times out, or reports    *)
(* a closed connection.                                                    *)
(***************************************************************************)
MaxRequests  == 2     \* requests and raw messages sent in one checked run
MaxDelivered == 3     \* messages the transport delivers in one checked run

\* lifecycle.py line 115: the id of the raw ping that INIT-004 sends.
PingId == 9992

\* The message _send_request builds (lines 24-32).
Request(id, method) == [jsonrpc |-> "2.0", id |-> id, method |-> method, params |-> "{}"]

\* The raw messages a check hands to send_raw: one with an id, one without.
RawMessages ==
    { [jsonrpc |-> "2.0", id |-> PingId, method |-> "ping"],
      [jsonrpc |-> "2.0", method |-> "nonexistent/notification_for_rpc006"] }

\* What transport.receive can return.
ServerMessages ==
    { [jsonrpc |-> "2.0", method |-> m] :
          m \in {"notifications/progress", "notifications/tools/list_changed"} }
    \cup { [jsonrpc |-> "2.0", id |-> i, result |-> "{}"] : i \in (1..MaxRequests) \cup {PingId} }

HasId(msg) == "id" \in DOMAIN msg

\* A client that takes the first id-bearing message as the response.
MatchesAnyId(msg, expected) == TRUE

\* _receive_response line 42
Matches(msg, expected) == msg.id = expected

\* A client that keeps only the latest notification.
BufferedLatestOnly(log, msg) == <<msg>>

\* _receive_response line 40
Buffered(log, msg) == Append(log, msg)

\* A client that uses the same id again.
NotAdvanced(id) == id

\* _send_request line 23: self._next_id += 1
Advanced(id) == id + 1

InitClient ==
    /\ ClientIdle
    /\ IdleExcept({"client"})

\* The client is between operations, and fewer than MaxRequests were started.
ClientFree ==
    /\ c_pc \in {"idle", "returned", "raised"}
    /\ (next_id - 1) + Len(SelectSeq(sent, LAMBDA m : m \in RawMessages)) < MaxRequests

\* _send_request lines 22-33: the id is taken, the counter advanced, the message sent.
SendRequest ==
    /\ ClientFree
    /\ next_id' = Advanced(next_id)
    /\ assigned' = Append(assigned, next_id)
    /\ sent' = Append(sent, Request(next_id, "tools/list"))
    /\ expected_id' = next_id
    /\ c_op' = "request"
    /\ c_pc' = "waiting"
    /\ returned' = ReturnedNone
    /\ c_recv' = <<>>
    /\ UNCHANGED <<received_notifications, delivered>>
    /\ UNCHANGED exceptClient

\* _send_request lines 22-33 when transport.send raises: the id is used up, nothing is awaited.
SendRequestFails ==
    /\ ClientFree
    /\ next_id' = Advanced(next_id)
    /\ assigned' = Append(assigned, next_id)
    /\ c_op' = "request"
    /\ c_pc' = "raised"
    /\ returned' = ReturnedNone
    /\ c_recv' = <<>>
    /\ UNCHANGED <<received_notifications, expected_id, sent, delivered>>
    /\ UNCHANGED exceptClient

\* send_raw lines 135-139: the message is sent; with an id the response is awaited,
\* without one None is returned at once.
SendRaw ==
    /\ ClientFree
    /\ \E message \in RawMessages :
          /\ sent' = Append(sent, message)
          /\ IF HasId(message)
             THEN /\ expected_id' = message.id
                  /\ c_pc' = "waiting"
             ELSE /\ expected_id' = expected_id
                  /\ c_pc' = "returned"
    /\ c_op' = "raw"
    /\ returned' = ReturnedNone
    /\ c_recv' = <<>>
    /\ UNCHANGED <<next_id, assigned, received_notifications, delivered>>
    /\ UNCHANGED exceptClient

\* _receive_response lines 37-44: one iteration of the loop, transport.receive
\* returning `msg`.
Deliver ==
    /\ c_pc = "waiting"
    /\ Len(delivered) < MaxDelivered
    /\ \E msg \in ServerMessages :
          /\ delivered' = Append(delivered, msg)
          /\ c_recv' = Append(c_recv, msg)
          /\ IF ~HasId(msg)
             THEN /\ received_notifications' = Buffered(received_notifications, msg)
                  /\ UNCHANGED <<c_pc, returned>>
             ELSE IF Matches(msg, expected_id)
             THEN /\ returned' = msg
                  /\ c_pc' = "returned"
                  /\ UNCHANGED received_notifications
             ELSE UNCHANGED <<received_notifications, c_pc, returned>>
    /\ UNCHANGED <<next_id, assigned, c_op, expected_id, sent>>
    /\ UNCHANGED exceptClient

\* _receive_response line 38 raising asyncio.TimeoutError: _send_request lets it
\* through, send_raw (lines 138-141) returns None.
ReceiveTimeout ==
    /\ c_pc = "waiting"
    /\ c_pc' = IF c_op = "raw" THEN "returned" ELSE "raised"
    /\ c_recv' = Append(c_recv, [raised |-> "TimeoutError"])
    /\ UNCHANGED <<next_id, assigned, received_notifications, c_op, expected_id, returned, sent, delivered>>
    /\ UNCHANGED exceptClient

\* _receive_response line 38 raising ConnectionError: neither operation catches it.
ReceiveClosed ==
    /\ c_pc = "waiting"
    /\ c_pc' = "raised"
    /\ c_recv' = Append(c_recv, [raised |-> "ConnectionError"])
    /\ UNCHANGED <<next_id, assigned, received_notifications, c_op, expected_id, returned, sent, delivered>>
    /\ UNCHANGED exceptClient

NextClient ==
    \/ SendRequest \/ SendRequestFails \/ SendRaw
    \/ Deliver \/ ReceiveTimeout \/ ReceiveClosed

SpecClient == InitClient /\ [][NextClient]_vars

\* _receive_response line 38, the await returning a message: any message,
\* as often as the server likes; the messages without id are capped at
\* MaxDelivered, the others are not.
WaitReceive ==
    /\ c_pc = "waiting"
    /\ \E msg \in ServerMessages :
          /\ HasId(msg) \/ Len(received_notifications) < MaxDelivered
          /\ w_msg' = <<msg>>
    /\ c_pc' = "examining"
    /\ UNCHANGED <<next_id, assigned, received_notifications, c_op, expected_id, returned,
                   sent, delivered, c_recv>>
    /\ UNCHANGED exceptWait

\* _receive_response lines 39-44: the message is buffered, returned or
\* skipped, and in the first and the last case the loop goes round.
WaitExamine ==
    /\ c_pc = "examining"
    /\ LET msg == w_msg[1]
       IN  IF ~HasId(msg)
           THEN /\ received_notifications' = Buffered(received_notifications, msg)
                /\ c_pc' = "waiting"
                /\ UNCHANGED returned
           ELSE IF Matches(msg, expected_id)
           THEN /\ returned' = msg
                /\ c_pc' = "returned"
                /\ UNCHANGED received_notifications
           ELSE /\ c_pc' = "waiting"
                /\ UNCHANGED <<received_notifications, returned>>
    /\ w_msg' = <<>>
    /\ UNCHANGED <<next_id, assigned, c_op, expected_id, sent, delivered, c_recv>>
    /\ UNCHANGED exceptWait

NextWait ==
    \/ SendRequest \/ SendRequestFails \/ SendRaw
    \/ WaitReceive \/ WaitExamine \/ ReceiveTimeout \/ ReceiveClosed

\* The client with the loop of _receive_response taken statement by
\* statement, where every await of receive ends (with a message, a timeout
\* or a closed connection) and every statement that can run does run.
SpecWait ==
    /\ InitClient
    /\ [][NextWait]_vars
    /\ WF_vars(WaitReceive \/ ReceiveTimeout \/ ReceiveClosed)
    /\ WF_vars(WaitExamine)

(***************************************************************************)
(* Runner (runner.py): Runner.run over a server whose behaviour is drawn   *)
(* from bounded sets.                                                      *)
(***************************************************************************)
MaxListed == 1     \* names in an explicit suite list
MaxFaults == 1     \* server behaviours in one run that make a check end otherwise than in PASS

\* _get_checks() of each suite, computed once.
SortedChecks == [s \in _VALID_SUITE_NAMES |-> _get_checks(s)]

\* runner.py lines 28-38
_SUITE_ORDER ==
    <<"auth", "lifecycle", "jsonrpc", "tools", "resources", "prompts",
      "notifications", "tasks", "edge">>

\* A run that calls _run_tools before _run_jsonrpc.
RunStepsToolsFirst ==
    <<"auth", "lifecycle", "caps", "tools", "jsonrpc", "resources", "prompts",
      "notifications", "tasks", "edge">>

\* Runner.run lines 102-125: the statements of the try block, in order; "caps"
\* stands for lines 104-117.
RunSteps ==
    <<"auth", "lifecycle", "caps", "jsonrpc", "tools", "resources", "prompts",
      "notifications", "tasks", "edge">>

\* The position after `step`: the next statement, or the return at line 131.
After(step) ==
    LET i == CHOOSE k \in DOMAIN RunSteps : RunSteps[k] = step
    IN  IF i = Len(RunSteps) THEN "returned" ELSE RunSteps[i + 1]

\* The values a server can put in result.capabilities of its initialize
\* response; "missing" is the absence of the key.
CapabilityValues ==
    { Object(keys, FALSE) :
        keys \in { {}, {"tools"}, {"resources"}, {"prompts"}, {"tasks"},
                   {"tools", "resources", "prompts", "tasks"} } }
    \cup { Object(keys, TRUE) :
             keys \in { {"resources"}, {"tools", "resources", "prompts", "tasks"} } }
    \cup { NotObject(k) : k \in {"missing", "null", "number", "string", "array"} }

\* What the server does while the lifecycle suite runs: how the runner's
\* initialize request ends, whether the server answers after
\* notifications/initialized (INIT-004), and whether it turns down a request
\* before initialize (INIT-005) and a second initialize (INIT-006).
ServerBehaviour ==
    { [initialize |-> i, still_responds |-> a, rejects_early |-> e, rejects_double |-> d] :
        i \in { [kind |-> k] : k \in {"timeout", "closed", "error", "result_not_object"} }
              \cup { [kind |-> "result", version_ok |-> v, capabilities |-> c] :
                        v \in BOOLEAN, c \in CapabilityValues },
        a \in BOOLEAN, e \in BOOLEAN, d \in BOOLEAN }

\* The number of ways in which behaviour `b` departs from a conforming server's.
Cost(b) ==
    (IF b.initialize.kind = "result"
     THEN (IF b.initialize.version_ok THEN 0 ELSE 1)
          + (IF b.initialize.capabilities.kind = "object" THEN 0 ELSE 1)
     ELSE 1)
    + (IF b.still_responds THEN 0 ELSE 1)
    + (IF b.rejects_early THEN 0 ELSE 1)
    + (IF b.rejects_double THEN 0 ELSE 1)

\* lifecycle.py lines 80-126: how the body of INIT-00<num> ends against a
\* server behaving as `b`.
LifecycleEnd(num, b) ==
    LET init == b.initialize
        \* line 83 was reached: initialize() returned and _init_response is set
        has_response == init.kind \in {"error", "result"}
        skip == Skips("INIT-001 did not complete")
    IN  CASE num = 1 ->
                (CASE init.kind = "timeout" -> TimeoutError
                   [] init.kind = "closed" -> ConnectionError
                   [] init.kind = "result_not_object" ->
                         Raises("AttributeError", "object has no attribute 'get'")
                   [] init.kind = "error" -> Returns(fail_check("No 'result' in response"))
                   [] init.kind = "result" -> PlainPass)
          [] num = 2 ->
                IF ~has_response THEN skip
                ELSE IF init.kind = "result" /\ init.version_ok
                THEN Returns(pass_check("protocolVersion="))
                ELSE Returns(fail_check("protocolVersion missing or not a string"))
          [] num = 3 ->
                IF ~has_response THEN skip
                ELSE IF init.kind = "result" /\ init.capabilities.kind = "object"
                THEN Returns(pass_check("capabilities keys"))
                ELSE Returns(fail_check("capabilities missing or not an object"))
          [] num = 4 ->
                IF ~has_response THEN skip
                ELSE IF b.still_responds
                THEN Returns(pass_check("Server still responds after notifications/initialized"))
                ELSE Returns(fail_check("Server stopped responding after notifications/initialized"))
          [] num = 5 ->
                IF b.rejects_early
                THEN Returns(pass_check("Server rejected with error"))
                ELSE Returns(warn_check("Server accepted request without prior initialize"))
          [] num = 6 ->
                IF b.rejects_double
                THEN Returns(pass_check("Server rejected double init"))
                ELSE Returns(warn_check("Server accepted double initialize"))

\* client.py lines 64-66: MCPClient.capabilities after initialize() against a
\* server behaving as `b`; `old` is the value before.
CapabilitiesAfter(b, old) ==
    IF b.initialize.kind = "result"
    THEN IF b.initialize.capabilities.kind = "missing"
         THEN Object({}, FALSE)
         ELSE b.initialize.capabilities
    ELSE old

\* `key in caps` (lines 106-115) for a dict, a str that does not hold the key,
\* or a list; for None and numbers the expression raises TypeError.
Contains(key, caps) == caps.kind = "object" /\ key \in caps.keys

\* The locals has_tools, has_resources, has_prompts, has_tasks (lines 112-115)
\* and has_subscribe (line 117), computed from the client's capabilities.
has_capability(key) ==
    IF key = "subscribe"
    THEN Contains("resources", capabilities) /\ capabilities.subscribe
    ELSE Contains(key, capabilities)

\* A filter that lets every suite through.
_should_run_suite_any(name) == TRUE

\* runner.py lines 77-82
_should_run_suite(name) ==
    IF explicitly_requested # {}
    THEN IF name = "lifecycle" THEN TRUE ELSE name \in explicitly_requested
    ELSE TRUE

\* runner.py lines 84-85
_is_http == transport_name \in {"http", "sse"}

\* The ends of check bodies that count against MaxFaults: a returned FAIL and
\* an exception (a timeout).
Deviations == { Returns(fail_check("detail")), TimeoutError }

\* The ways the bodies of n checks can end with at most `budget` deviations.
RECURSIVE BodyEndsWithin(_, _)
BodyEndsWithin(n, budget) ==
    IF n = 0 THEN { <<>> }
    ELSE { Append(es, PlainPass) : es \in BodyEndsWithin(n - 1, budget) }
         \cup (IF budget = 0 THEN {}
               ELSE { Append(es[1], es[2]) :
                        es \in BodyEndsWithin(n - 1, budget - 1) \X Deviations })

Faults(es) == Len(SelectSeq(es, LAMBDA e : e # PlainPass))

\* suite.run() of suite `name` whose bodies end as `es`: BaseSuite.run applied
\* to the suite's checks in _get_checks order.
SuiteRun(name, es) ==
    SuiteResult(SuiteName(name),
                [i \in 1..Len(es) |-> HarnessRecord(SortedChecks[name][i], es[i])])

\* The result list holds check <<prefix, num>> with status `status`
\* (the loops at lines 156-158, 182-185 and 199-202).
HasStatus(result, prefix, num, status) ==
    \E i \in DOMAIN result.checks :
        /\ result.checks[i].check_id = <<prefix, num>>
        /\ result.checks[i].status = status

\* A runner that never raises AbortRunError.
AbortsNever(result) == FALSE

\* runner.py lines 156-158
Aborts(result) == HasStatus(result, "INIT", 1, "FAIL")

\* `result = await suite.run(); report.suites.append(result)` of a _run_*
\* method, the bodies of the suite's checks ending as `es`.
Ran(name, es) ==
    /\ report' = [report EXCEPT !.suites = Append(@, SuiteRun(name, es))]
    /\ executed' = Append(executed, name)
    /\ faults' = faults + Faults(es)

\* A runner that constructs the tasks and edge suites without the tool list.
HandedNothing(tools) == <<>>

\* runner.py lines 235 and 245: the `tools=self._tools` argument.
Handed(tools) == tools

\* The lists a server returns from tools/list and resources/list.
ServerLists == { <<>>, <<"item">> }

\* cli.py lines 151-189: the transport name, server URL and --oauth flag the
\* command line hands to Runner.
CliTargets ==
    { <<"stdio", "", FALSE>>, <<"http", "http://server", FALSE>>,
      <<"http", "http://server", TRUE>> }

\* Runner.__init__ (lines 46-75) with a valid suite list or none, then the
\* entry of Runner.run (lines 88-99).
InitRunner ==
    /\ explicitly_requested \in
          { l \in SUBSET _VALID_SUITE_NAMES : Cardinality(l) <= MaxListed }
    /\ \E t \in CliTargets :
          /\ transport_name = t[1]
          /\ server_url = t[2]
          /\ oauth_enabled = t[3]
    /\ capabilities = Object({}, FALSE)
    /\ report = ProbeReport(EmptyDict, <<>>)
    /\ r_tools = <<>>
    /\ r_resources = <<>>
    /\ suite_tools = <<>>
    /\ handed = <<>>
    /\ r_pc = RunSteps[1]
    /\ executed = <<>>
    /\ init_end = <<>>
    /\ faults = 0
    /\ IdleExcept({"runner"})

\* runner.py lines 133-143
_run_auth ==
    /\ r_pc = "auth"
    /\ IF /\ _should_run_suite("auth")
          /\ _is_http /\ oauth_enabled /\ server_url # ""
       THEN \E es \in BodyEndsWithin(Len(SortedChecks["auth"]), MaxFaults - faults) :
                Ran("auth", es)
       ELSE UNCHANGED <<report, executed, faults>>
    /\ r_pc' = After("auth")
    /\ UNCHANGED <<explicitly_requested, transport_name, oauth_enabled, server_url,
                   capabilities, r_tools, r_resources, init_end, suite_tools, handed>>
    /\ UNCHANGED exceptRunner

\* runner.py lines 145-158, and lines 127-131 when AbortRunError is raised.
_run_lifecycle ==
    /\ r_pc = "lifecycle"
    /\ \E b \in ServerBehaviour :
          LET es == [i \in 1..Len(SortedChecks["lifecycle"]) |->
                        LifecycleEnd(SortedChecks["lifecycle"][i].check_id[2], b)]
          IN  /\ Cost(b) <= MaxFaults - faults
              /\ report' = [report EXCEPT !.suites = Append(@, SuiteRun("lifecycle", es))]
              /\ executed' = Append(executed, "lifecycle")
              /\ faults' = faults + Cost(b)
              /\ init_end' = <<b>>
              /\ capabilities' = CapabilitiesAfter(b, capabilities)
              /\ r_pc' = IF Aborts(SuiteRun("lifecycle", es))
                         THEN "returned"
                         ELSE After("lifecycle")
    /\ UNCHANGED <<explicitly_requested, transport_name, oauth_enabled, server_url,
                   r_tools, r_resources, suite_tools, handed>>
    /\ UNCHANGED exceptRunner

\* runner.py lines 104-117: `"tools" in caps` raises TypeError for None and
\* numbers (line 106, before report.capabilities is assigned); caps.get raises
\* AttributeError for strings and lists (line 117).  Neither is AbortRunError,
\* so the exception leaves run().
ReadCapabilities ==
    /\ r_pc = "caps"
    /\ IF capabilities.kind \in {"null", "number"}
       THEN /\ r_pc' = "raised"
            /\ UNCHANGED report
       ELSE /\ report' = [report EXCEPT !.capabilities =
                            [keys |-> {"tools", "resources", "prompts", "tasks"},
                             true |-> { k \in {"tools", "resources", "prompts", "tasks"} :
                                          Contains(k, capabilities) }]]
            /\ r_pc' = IF capabilities.kind \in {"string", "array"}
                       THEN "raised"
                       ELSE After("caps")
    /\ UNCHANGED <<explicitly_requested, transport_name, oauth_enabled, server_url,
                   capabilities, r_tools, r_resources, executed, init_end, faults, suite_tools, handed>>
    /\ UNCHANGED exceptRunner

\* runner.py lines 160-168
_run_jsonrpc ==
    /\ r_pc = "jsonrpc"
    /\ IF _should_run_suite("jsonrpc")
       THEN \E es \in BodyEndsWithin(Len(SortedChecks["jsonrpc"]), MaxFaults - faults) :
                Ran("jsonrpc", es)
       ELSE UNCHANGED <<report, executed, faults>>
    /\ r_pc' = After("jsonrpc")
    /\ UNCHANGED <<explicitly_requested, transport_name, oauth_enabled, server_url,
                   capabilities, r_tools, r_resources, init_end, suite_tools, handed>>
    /\ UNCHANGED exceptRunner

\* runner.py lines 170-185; `list` is what TOOL-001 stored in suite._tools.
_run_tools ==
    /\ r_pc = "tools"
    /\ IF /\ _should_run_suite("tools")
          /\ has_capability("tools") \/ "tools" \in explicitly_requested
       THEN \E es \in BodyEndsWithin(Len(SortedChecks["tools"]), MaxFaults - faults),
               list \in ServerLists :
                /\ Ran("tools", es)
                \* tools.py line 47: TOOL-001 stores the list just before it passes
                /\ suite_tools' = IF HasStatus(SuiteRun("tools", es), "TOOL", 1, "PASS")
                                  THEN list
                                  ELSE <<>>
                /\ r_tools' = IF HasStatus(SuiteRun("tools", es), "TOOL", 1, "PASS")
                              THEN suite_tools'
                              ELSE r_tools
       ELSE UNCHANGED <<report, executed, faults, r_tools, suite_tools>>
    /\ r_pc' = After("tools")
    /\ UNCHANGED <<explicitly_requested, transport_name, oauth_enabled, server_url,
                   capabilities, r_resources, init_end, handed>>
    /\ UNCHANGED exceptRunner

\* runner.py lines 187-202; `list` is what RES-001 stored in suite._resources.
_run_resources ==
    /\ r_pc = "resources"
    /\ IF /\ _should_run_suite("resources")
          /\ has_capability("resources") \/ "resources" \in explicitly_requested
       THEN \E es \in BodyEndsWithin(Len(SortedChecks["resources"]), MaxFaults - faults),
               list \in ServerLists :
                /\ Ran("resources", es)
                /\ r_resources' = IF HasStatus(SuiteRun("resources", es), "RES", 1, "PASS")
                                  THEN list
                                  ELSE r_resources
       ELSE UNCHANGED <<report, executed, faults, r_resources>>
    /\ r_pc' = After("resources")
    /\ UNCHANGED <<explicitly_requested, transport_name, oauth_enabled, server_url,
                   capabilities, r_tools, init_end, suite_tools, handed>>
    /\ UNCHANGED exceptRunner

\* runner.py lines 204-214
_run_prompts ==
    /\ r_pc = "prompts"
    /\ IF /\ _should_run_suite("prompts")
          /\ has_capability("prompts") \/ "prompts" \in explicitly_requested
       THEN \E es \in BodyEndsWithin(Len(SortedChecks["prompts"]), MaxFaults - faults) :
                Ran("prompts", es)
       ELSE UNCHANGED <<report, executed, faults>>
    /\ r_pc' = After("prompts")
    /\ UNCHANGED <<explicitly_requested, transport_name, oauth_enabled, server_url,
                   capabilities, r_tools, r_resources, init_end, suite_tools, handed>>
    /\ UNCHANGED exceptRunner

\* runner.py lines 216-225
_run_notifications ==
    /\ r_pc = "notifications"
    /\ IF _should_run_suite("notifications")
       THEN \E es \in BodyEndsWithin(Len(SortedChecks["notifications"]), MaxFaults - faults) :
                /\ Ran("notifications", es)
                /\ handed' = Append(handed, [suite |-> "notifications",
                                              items |-> IF has_capability("subscribe") THEN r_resources ELSE <<>>])
       ELSE UNCHANGED <<report, executed, faults, handed>>
    /\ r_pc' = After("notifications")
    /\ UNCHANGED <<explicitly_requested, transport_name, oauth_enabled, server_url,
                   capabilities, r_tools, r_resources, init_end, suite_tools>>
    /\ UNCHANGED exceptRunner

\* runner.py lines 227-237
_run_tasks ==
    /\ r_pc = "tasks"
    /\ IF /\ _should_run_suite("tasks")
          /\ has_capability("tasks") \/ "tasks" \in explicitly_requested
       THEN \E es \in BodyEndsWithin(Len(SortedChecks["tasks"]), MaxFaults - faults) :
                /\ Ran("tasks", es)
                /\ handed' = Append(handed, [suite |-> "tasks",
                                              items |-> Handed(r_tools)])
       ELSE UNCHANGED <<report, executed, faults, handed>>
    /\ r_pc' = After("tasks")
    /\ UNCHANGED <<explicitly_requested, transport_name, oauth_enabled, server_url,
                   capabilities, r_tools, r_resources, init_end, suite_tools>>
    /\ UNCHANGED exceptRunner

\* runner.py lines 239-247, then lines 129-131: run() returns the report
_run_edge ==
    /\ r_pc = "edge"
    /\ IF _should_run_suite("edge")
       THEN \E es \in BodyEndsWithin(Len(SortedChecks["edge"]), MaxFaults - faults) :
                /\ Ran("edge", es)
                /\ handed' = Append(handed, [suite |-> "edge",
                                              items |-> Handed(r_tools)])
       ELSE UNCHANGED <<report, executed, faults, handed>>
    /\ r_pc' = After("edge")
    /\ UNCHANGED <<explicitly_requested, transport_name, oauth_enabled, server_url,
                   capabilities, r_tools, r_resources, init_end, suite_tools>>
    /\ UNCHANGED exceptRunner

Next ==
    \/ _run_auth \/ _run_lifecycle \/ ReadCapabilities
    \/ _run_jsonrpc \/ _run_tools \/ _run_resources \/ _run_prompts
    \/ _run_notifications \/ _run_tasks \/ _run_edge

\* Runner.run
Spec == InitRunner /\ [][Next]_vars

(***************************************************************************)
(* compute_exit_code (runner.py lines 250-261) over bounded reports.       *)
(***************************************************************************)
MaxChecks == 2     \* checks in a report handed to compute_exit_code

\* A report of two suites: the first k checks of `cs`, then the others.
SplitReport(cs, k) ==
    ProbeReport(EmptyDict,
                << SuiteResult("lifecycle", [i \in 1..k |-> cs[i]]),
                   SuiteResult("jsonrpc", [i \in 1..(Len(cs) - k) |-> cs[k + i]]) >>)

\* A check that counts whenever it is not PASS.
CountsAnyFailure(c, strict) == c.status # "PASS"

\* An exit code that passes over critical checks.
CountsBelowCritical(c, strict) ==
    \/ /\ c.status = "FAIL"
       /\ \/ c.severity = "ERROR"
          \/ strict /\ c.severity = "WARNING"
    \/ /\ strict /\ c.status = "WARN"
       /\ c.severity \in {"ERROR", "WARNING"}

\* lines 253-260: the body of the inner loop returns 1 for check c.
Counts(c, strict) ==
    \/ /\ c.status = "FAIL"
       /\ \/ c.severity \in {"CRITICAL", "ERROR"}
          \/ strict /\ c.severity = "WARNING"
    \/ /\ strict /\ c.status = "WARN"
       /\ c.severity \in {"CRITICAL", "ERROR", "WARNING"}

\* lines 252-260: the inner loop from check i on; TRUE when it returns 1.
RECURSIVE ScanChecks(_, _, _)
ScanChecks(cs, i, strict) ==
    IF i > Len(cs) THEN FALSE
    ELSE IF Counts(cs[i], strict) THEN TRUE
    ELSE ScanChecks(cs, i + 1, strict)

\* lines 251-261: the outer loop from suite i on.
RECURSIVE ScanSuites(_, _, _)
ScanSuites(suites, i, strict) ==
    IF i > Len(suites) THEN 0
    ELSE IF ScanChecks(suites[i].checks, 1, strict) THEN 1
    ELSE ScanSuites(suites, i + 1, strict)

compute_exit_code(rep, strict) == ScanSuites(rep.suites, 1, strict)

\* The arguments of a call: a report of at most MaxChecks checks in two suites,
\* every status at every severity, and the strict flag.
InitExit ==
    /\ \E m \in 0..MaxChecks :
          \E cs \in [1..m -> { CheckResult(NoId, st, sev, None) :
                                 st \in Status, sev \in Severity }] :
              \E k \in 0..m : e_report = SplitReport(cs, k)
    /\ e_strict \in BOOLEAN
    /\ exit_code = <<>>
    /\ IdleExcept({"exit"})

ComputeExitCode ==
    /\ exit_code = <<>>
    /\ exit_code' = << compute_exit_code(e_report, e_strict) >>
    /\ UNCHANGED <<e_report, e_strict>>
    /\ UNCHANGED exceptExit

SpecExit == InitExit /\ [][ComputeExitCode]_vars

(***************************************************************************)
(* MCPClient._paginated_list (client.py lines 70-83) over bounded page     *)
(* sequences.  Each _send_request is one send and one outcome: the         *)
(* response it returns or the exception it raises.                         *)
(***************************************************************************)
MaxPages == 3     \* responses one call of _paginated_list receives

\* A dict.get that always answers with the default.
GetDefaultOnly(d, key, default) == default

\* dict.get(key, default)
Get(d, key, default) == IF key \in DOMAIN d THEN d[key] ELSE default

\* list_tools, list_resources, list_prompts, list_tasks (lines 85-119).
ListCalls ==
    { <<"tools/list", "tools">>, <<"resources/list", "resources">>,
      <<"prompts/list", "prompts">>, <<"tasks/list", "tasks">> }

\* The responses to a list request: an error response, or a result that may
\* hold a list under `key` and may hold a nextCursor that is null, empty or
\* a cursor.
PageResponses(key) ==
    LET Field(has, k, v) == IF has THEN k :> v ELSE <<>>
    IN
    { [jsonrpc |-> "2.0", error |-> "{code, message}"] }
    \cup { [jsonrpc |-> "2.0",
            result |-> Field(has_list, key, list) @@ Field(has_next, "nextCursor", next)] :
             has_list \in BOOLEAN, list \in { <<>>, <<"a">>, <<"b">> },
             has_next \in BOOLEAN, next \in { None, "", "c1", "c2" } }

\* `not cursor` (line 81) for None and strings.
Falsy(v) == v \in { None, "" }

\* A client that never sends a cursor.
ParamsWithoutCursor(c) == <<>>

\* lines 74-76: the params of the next request.
Params(c) == IF c # None THEN [cursor |-> c] ELSE <<>>

\* A call of one of the list operations on a new client.
InitPaging ==
    /\ p_call \in ListCalls
    /\ p_pc = "send"
    /\ items = <<>>
    /\ cursor = None
    /\ pages = <<>>
    /\ ClientIdle
    /\ IdleExcept({"paging", "client"})

\* lines 74-77 and _send_request lines 22-33: the request goes out.
ListSend ==
    /\ p_pc = "send"
    /\ Len(pages) < MaxPages
    /\ next_id' = Advanced(next_id)
    /\ assigned' = Append(assigned, next_id)
    /\ sent' = Append(sent, [jsonrpc |-> "2.0", id |-> next_id,
                             method |-> p_call[1], params |-> Params(cursor)])
    /\ p_pc' = "waiting"
    /\ UNCHANGED <<p_call, items, cursor, pages>>
    /\ UNCHANGED <<received_notifications, c_pc, c_op, expected_id, returned, delivered, c_recv>>
    /\ UNCHANGED exceptPaging

\* lines 77-82: _send_request returns `resp`.
ListReceive ==
    /\ p_pc = "waiting"
    /\ \E resp \in PageResponses(p_call[2]) :
          LET result == Get(resp, "result", <<>>)
          IN  /\ pages' = Append(pages, resp)
              /\ items' = items \o Get(result, p_call[2], <<>>)
              /\ cursor' = Get(result, "nextCursor", None)
              /\ p_pc' = IF Falsy(Get(result, "nextCursor", None)) THEN "returned" ELSE "send"
    /\ UNCHANGED p_call
    /\ UNCHANGED clientVars
    /\ UNCHANGED exceptPaging

\* lines 77-80: _send_request raises (timeout, closed connection), or the
\* response is malformed (a result that is not an object, a value under
\* `key` that cannot be iterated) and .get or extend raises.
ListRaises ==
    /\ p_pc = "waiting"
    /\ p_pc' = "raised"
    /\ UNCHANGED <<p_call, items, cursor, pages>>
    /\ UNCHANGED clientVars
    /\ UNCHANGED exceptPaging

SpecPaging == InitPaging /\ [][ListSend \/ ListReceive \/ ListRaises]_vars

(***************************************************************************)
(* The list check of the tools, resources and prompts suites (TOOL-001,    *)
(* tools.py lines 30-48; RES-001, resources.py lines 20-37; PROMPT-001,    *)
(* prompts.py lines 20-37) and the pagination check of the same suite      *)
(* (TOOL-008, RES-005, PROMPT-004), on a new client.  The requests go out  *)
(* as in _paginated_list (ListSend) and fail as there (ListRaises).        *)
(* Specification SpecList.                                                 *)
(***************************************************************************)

\* A list check that keeps only the entries of the page just fetched.
ExtendedReplaces(list, result, key) == Get(result, key, <<>>)

\* tools.py lines 34 and 45: the first page's list, extended by the entries
\* of every later page (none when the page has no list).
Extended(list, result, key) == list \o Get(result, key, <<>>)

\* tools.py line 39: self._first_page_had_cursor = "nextCursor" in result
FirstPageHadCursor(result) == "nextCursor" \in DOMAIN result

\* _paginated_list (client.py lines 70-83) served the responses `served` one
\* after the other: the pages it fetches, the cursors it sends (None for a
\* request without cursor) and the list it returns; returned is FALSE when
\* it asks for more than was served.
RECURSIVE PaginatedOver(_, _, _, _)
PaginatedOver(served, key, c, acc) ==
    IF served = <<>>
    THEN [items |-> acc, cursors |-> <<c>>, fetched |-> 0, returned |-> FALSE]
    ELSE LET result == Get(Head(served), "result", <<>>)
             list == acc \o Get(result, key, <<>>)
             next == Get(result, "nextCursor", None)
         IN  IF Falsy(next)
             THEN [items |-> list, cursors |-> <<c>>, fetched |-> 1, returned |-> TRUE]
             ELSE LET rest == PaginatedOver(Tail(served), key, next, list)
                  IN  [rest EXCEPT !.cursors = <<c>> \o @, !.fetched = @ + 1]

\* The suite is constructed on a new client.
InitList ==
    /\ p_call \in ListCalls \ { <<"tasks/list", "tasks">> }
    /\ p_pc = "send"
    /\ items = <<>>
    /\ cursor = None
    /\ pages = <<>>
    /\ ListIdle
    /\ ClientIdle
    /\ IdleExcept({"paging", "client", "list"})

\* tools.py lines 32-48: _send_request returns `resp`.  On the first page a
\* missing list ends the check in FAIL; the cursor is followed while it is
\* truthy; at the end the list is captured and the check passes.
ListCheckReceive ==
    /\ p_pc = "waiting"
    /\ \E resp \in PageResponses(p_call[2]) :
          LET result == Get(resp, "result", <<>>)
              first == pages = <<>>
              next == Get(result, "nextCursor", None)
              list == Extended(items, result, p_call[2])
          IN  /\ pages' = Append(pages, resp)
              /\ IF first /\ p_call[2] \notin DOMAIN result
                 THEN /\ p_pc' = "failed"
                      /\ UNCHANGED <<items, cursor, first_page_had_cursor, captured>>
                 ELSE /\ items' = list
                      /\ cursor' = next
                      /\ first_page_had_cursor' =
                            IF first THEN FirstPageHadCursor(result) ELSE first_page_had_cursor
                      /\ p_pc' = IF Falsy(next) THEN "returned" ELSE "send"
                      /\ captured' = IF Falsy(next) THEN list ELSE captured
    /\ UNCHANGED <<p_call, page_check>>
    /\ UNCHANGED clientVars
    /\ UNCHANGED exceptList

\* tools.py lines 151-155, after the list check has ended in PASS, in FAIL or
\* by an exception.
PaginationCheck ==
    /\ p_pc \in {"returned", "failed", "raised"}
    /\ page_check = <<>>
    /\ page_check' = IF first_page_had_cursor THEN <<"PASS">> ELSE <<"SKIP">>
    /\ UNCHANGED <<first_page_had_cursor, captured>>
    /\ UNCHANGED pagingVars
    /\ UNCHANGED clientVars
    /\ UNCHANGED exceptList

SpecList ==
    InitList /\ [][ListSend \/ ListCheckReceive \/ ListRaises \/ PaginationCheck]_vars

(***************************************************************************)
(* TasksSuite.check_task_008 (suites/tasks.py lines 115-157) on a client   *)
(* that has sent nothing yet.  Each _send_request is one send and one      *)
(* outcome.  Specification SpecTask.                                       *)
(***************************************************************************)
PollAttempts == 3     \* line 146: for _ in range(3)

\* line 12
_VALID_TASK_STATUSES == {"working", "input_required", "completed", "failed", "cancelled"}

\* A check for which only completed ends the polling.
OnlyCompletedEndsPolling == {"completed"}

\* line 13
_TERMINAL_STATUSES == {"completed", "failed", "cancelled"}

\* _send_request lines 22-33 as far as the wire sees it: the next id is
\* taken and the request goes out.
ClientSends(method, params) ==
    /\ next_id' = Advanced(next_id)
    /\ assigned' = Append(assigned, next_id)
    /\ sent' = Append(sent, [jsonrpc |-> "2.0", id |-> next_id,
                             method |-> method, params |-> params])
    /\ UNCHANGED <<received_notifications, c_pc, c_op, expected_id, returned, delivered, c_recv>>

\* The tools handed to the suite: args is <<the arguments>> that
\* generate_valid_args gives for the tool's inputSchema, <<>> for None.
TaskTools ==
    LET Tool == { [name |-> n, args |-> a] : n \in {"t1", "t2"}, a \in { <<>>, <<"{}">> } }
    IN  { <<>> } \cup { <<t>> : t \in Tool }
        \cup { <<t, u>> : t \in { x \in Tool : x.name = "t1" }, u \in { x \in Tool : x.name = "t2" } }

\* lines 121-129: the first tool for which generate_valid_args gives
\* arguments, << >> when there is none.
FirstCallable(tools) ==
    LET callable == { i \in 1..Len(tools) : tools[i].args # <<>> }
    IN  IF callable = {} THEN <<>>
        ELSE <<tools[CHOOSE i \in callable : \A j \in callable : i <= j]>>

\* What the server answers to the task-augmented tools/call: an error, or
\* a result whose type, taskId and status may be missing (None).
TaskCallResponses ==
    { [jsonrpc |-> "2.0", error |-> "{code, message}"] }
    \cup { [jsonrpc |-> "2.0", result |-> [type |-> ty, taskId |-> id, status |-> st]] :
             ty \in {None, "task", "text"}, id \in {None, "tk"},
             st \in {None} \cup _VALID_TASK_STATUSES }

\* What the server answers to tasks/get.
TaskPollResponses ==
    { [jsonrpc |-> "2.0", error |-> "{code, message}"] }
    \cup { [jsonrpc |-> "2.0", result |-> [taskId |-> "tk", status |-> st]] :
             st \in {None} \cup _VALID_TASK_STATUSES }

InitTask ==
    /\ tasks_caps \in { [dict |-> FALSE], [dict |-> TRUE, tools |-> FALSE],
                        [dict |-> TRUE, tools |-> TRUE] }
    /\ task_tools \in TaskTools
    /\ task_pc = "start"
    /\ task_status = <<>>
    /\ polled = <<>>
    /\ task_end = <<>>
    /\ ClientIdle
    /\ IdleExcept({"task", "client"})

\* lines 117-132: the three skips, then call_tool_with_task sends.
Task008Begin ==
    /\ task_pc = "start"
    /\ IF \/ ~tasks_caps.dict
          \/ ~tasks_caps.tools
          \/ task_tools = <<>>
          \/ FirstCallable(task_tools) = <<>>
       THEN /\ task_pc' = "ended"
            /\ task_end' = <<"SKIP">>
            /\ UNCHANGED clientVars
       ELSE /\ ClientSends("tools/call",
                           [name |-> FirstCallable(task_tools)[1].name,
                            arguments |-> FirstCallable(task_tools)[1].args[1],
                            task |-> [ttl |-> 30000]])
            /\ task_pc' = "calling"
            /\ UNCHANGED task_end
    /\ UNCHANGED <<tasks_caps, task_tools, task_status, polled>>
    /\ UNCHANGED exceptTask

\* lines 132-144 and 157: the call returns `resp`.
Task008CallReturns ==
    /\ task_pc = "calling"
    /\ \E resp \in TaskCallResponses :
          IF "error" \in DOMAIN resp
          THEN /\ task_pc' = "ended"
               /\ task_end' = <<"FAIL">>
               /\ UNCHANGED task_status
          ELSE IF resp.result.type # "task"
          THEN /\ task_pc' = "ended"
               /\ task_end' = <<"FAIL">>
               /\ UNCHANGED task_status
          ELSE /\ task_status' = <<resp.result.status>>
               /\ IF resp.result.taskId = None
                  THEN /\ task_pc' = "ended"
                       /\ task_end' = <<"FAIL">>
                  ELSE IF resp.result.status = "working"
                  THEN /\ task_pc' = "sleeping"
                       /\ UNCHANGED task_end
                  ELSE /\ task_pc' = "ended"
                       /\ task_end' = <<"PASS">>
    /\ UNCHANGED <<tasks_caps, task_tools, polled>>
    /\ UNCHANGED clientVars
    /\ UNCHANGED exceptTask

\* lines 146-148: one more iteration: the sleep is over and get_task sends.
Task008Poll ==
    /\ task_pc = "sleeping"
    /\ Len(polled) < PollAttempts
    /\ ClientSends("tasks/get", [taskId |-> "tk"])
    /\ task_pc' = "polling"
    /\ UNCHANGED <<tasks_caps, task_tools, task_status, polled, task_end>>
    /\ UNCHANGED exceptTask

\* lines 148-156: get_task returns `poll_resp`.
Task008PollReturns ==
    /\ task_pc = "polling"
    /\ \E poll_resp \in TaskPollResponses :
          LET poll_result == Get(poll_resp, "result", <<>>)
              status == Get(poll_result, "status", None)
          IN  /\ polled' = Append(polled, status)
              /\ IF status \in _TERMINAL_STATUSES
                 THEN IF status = "completed"
                      THEN /\ task_pc' = "fetch"
                           /\ UNCHANGED task_end
                      ELSE /\ task_pc' = "ended"
                           /\ task_end' = <<"PASS">>
                 ELSE IF Len(polled) + 1 = PollAttempts
                      THEN /\ task_pc' = "ended"
                           /\ task_end' = <<"PASS">>
                      ELSE /\ task_pc' = "sleeping"
                           /\ UNCHANGED task_end
    /\ UNCHANGED <<tasks_caps, task_tools, task_status>>
    /\ UNCHANGED clientVars
    /\ UNCHANGED exceptTask

\* line 153: get_task_result sends.
Task008Fetch ==
    /\ task_pc = "fetch"
    /\ ClientSends("tasks/get_result", [taskId |-> "tk"])
    /\ task_pc' = "fetching"
    /\ UNCHANGED <<tasks_caps, task_tools, task_status, polled, task_end>>
    /\ UNCHANGED exceptTask

\* lines 153-157: get_task_result returns, whatever the response.
Task008FetchReturns ==
    /\ task_pc = "fetching"
    /\ task_pc' = "ended"
    /\ task_end' = <<"PASS">>
    /\ UNCHANGED <<tasks_caps, task_tools, task_status, polled>>
    /\ UNCHANGED clientVars
    /\ UNCHANGED exceptTask

\* A _send_request raises (timeout, closed connection), or line 145 raises
\* on a pollInterval that is not a number: the check ends by the exception.
Task008Raises ==
    /\ \/ task_pc \in {"calling", "polling", "fetching"}
       \/ task_pc = "sleeping" /\ polled = <<>>
    /\ task_pc' = "ended"
    /\ task_end' = <<"raised">>
    /\ UNCHANGED <<tasks_caps, task_tools, task_status, polled>>
    /\ UNCHANGED clientVars
    /\ UNCHANGED exceptTask

SpecTask ==
    InitTask /\ [][Task008Begin \/ Task008CallReturns \/ Task008Poll \/ Task008PollReturns
                   \/ Task008Fetch \/ Task008FetchReturns \/ Task008Raises]_vars

(***************************************************************************)
(* SUB-001 and SUB-002 (suites/notifications.py lines 134-156) after the   *)
(* runner's _run_resources and _run_notifications (runner.py lines         *)
(* 187-225), on a client that has sent nothing yet.  Specification SpecSub.*)
(***************************************************************************)

\* The value of caps.get("resources"): absent, something that is not an
\* object, or an object whose subscribe is absent (<<>>), falsy or truthy.
ResourceCaps ==
    { [kind |-> "absent"], [kind |-> "other"] }
    \cup { [kind |-> "dict", subscribe |-> s] : s \in { <<>>, <<FALSE>>, <<TRUE>> } }

\* runner.py line 117 and notifications.py lines 137-138: resources is an
\* object whose subscribe is truthy.
has_subscribe(caps_resources) ==
    caps_resources.kind = "dict" /\ caps_resources.subscribe = <<TRUE>>

\* The lists RES-001 can have stored: resources with and without a uri.
ResourceLists ==
    { <<>>, <<[uri |-> "u1"]>>, <<[name |-> "n"]>>,
      <<[uri |-> "u1"], [uri |-> "u2"]>>, <<[uri |-> "u2"], [uri |-> "u1"]>> }

\* A check that subscribes to the last resource.
LastUri(resources) == Get(resources[Len(resources)], "uri", "")

\* notifications.py line 143: uri = self._resources[0].get("uri", "")
FirstUri(resources) == Get(resources[1], "uri", "")

\* What the server answers to subscribe and unsubscribe; [raises |-> TRUE]
\* stands for a _send_request that raises.
SubscribeOutcomes ==
    { [jsonrpc |-> "2.0", error |-> "{code, message}"], [jsonrpc |-> "2.0", result |-> "{}"],
      [raises |-> TRUE] }

\* Runner.run has read the capabilities (lines 103-117); the resources suite
\* ran or not, and RES-001 stored its list only when it passed
\* (resources.py line 36).
InitSub ==
    /\ res_caps \in ResourceCaps
    /\ res_001 \in { <<>>, <<"PASS">>, <<"FAIL">> }
    /\ suite_resources \in ResourceLists
    /\ res_001 # <<"PASS">> => suite_resources = <<>>
    /\ run_resources = <<>>
    /\ n_resources = <<>>
    /\ subscribed_uri = <<>>
    /\ sub_pc = "resources"
    /\ sub_ends = <<>>
    /\ ClientIdle
    /\ IdleExcept({"sub", "client"})

\* runner.py lines 199-202: the list is captured when RES-001 passed.
RunResourcesCaptures ==
    /\ sub_pc = "resources"
    /\ run_resources' = IF res_001 = <<"PASS">> THEN suite_resources ELSE run_resources
    /\ sub_pc' = "notifications"
    /\ UNCHANGED <<res_caps, res_001, suite_resources, n_resources, subscribed_uri, sub_ends>>
    /\ UNCHANGED clientVars
    /\ UNCHANGED exceptSub

\* runner.py lines 222-223 and NotificationsSuite.__init__ (lines 37-40).
RunNotificationsConstructs ==
    /\ sub_pc = "notifications"
    /\ n_resources' = IF has_subscribe(res_caps) THEN run_resources ELSE <<>>
    /\ sub_pc' = "sub001"
    /\ UNCHANGED <<res_caps, res_001, suite_resources, run_resources, subscribed_uri, sub_ends>>
    /\ UNCHANGED clientVars
    /\ UNCHANGED exceptSub

\* notifications.py lines 136-144: the two skips, then subscribe_resource sends.
Sub001Begin ==
    /\ sub_pc = "sub001"
    /\ IF ~has_subscribe(res_caps) \/ n_resources = <<>>
       THEN /\ sub_ends' = Append(sub_ends, "SKIP")
            /\ sub_pc' = "sub002"
            /\ UNCHANGED clientVars
       ELSE /\ ClientSends("resources/subscribe", [uri |-> FirstUri(n_resources)])
            /\ sub_pc' = "subscribing"
            /\ UNCHANGED sub_ends
    /\ UNCHANGED <<res_caps, res_001, suite_resources, run_resources, n_resources, subscribed_uri>>
    /\ UNCHANGED exceptSub

\* lines 144-148: subscribe_resource returns or raises.
Sub001Ends ==
    /\ sub_pc = "subscribing"
    /\ \E resp \in SubscribeOutcomes :
          IF "raises" \in DOMAIN resp \/ "error" \in DOMAIN resp
          THEN /\ sub_ends' = Append(sub_ends, "FAIL")
               /\ UNCHANGED subscribed_uri
          ELSE /\ sub_ends' = Append(sub_ends, "PASS")
               /\ subscribed_uri' = <<FirstUri(n_resources)>>
    /\ sub_pc' = "sub002"
    /\ UNCHANGED <<res_caps, res_001, suite_resources, run_resources, n_resources>>
    /\ UNCHANGED clientVars
    /\ UNCHANGED exceptSub

\* lines 150-153: the skip, then unsubscribe_resource sends.
Sub002Begin ==
    /\ sub_pc = "sub002"
    /\ IF subscribed_uri = <<>>
       THEN /\ sub_ends' = Append(sub_ends, "SKIP")
            /\ sub_pc' = "ended"
            /\ UNCHANGED clientVars
       ELSE /\ ClientSends("resources/unsubscribe", [uri |-> subscribed_uri[1]])
            /\ sub_pc' = "unsubscribing"
            /\ UNCHANGED sub_ends
    /\ UNCHANGED <<res_caps, res_001, suite_resources, run_resources, n_resources, subscribed_uri>>
    /\ UNCHANGED exceptSub

\* lines 153-156: unsubscribe_resource returns or raises.
Sub002Ends ==
    /\ sub_pc = "unsubscribing"
    /\ \E resp \in SubscribeOutcomes :
          sub_ends' = Append(sub_ends, IF "raises" \in DOMAIN resp \/ "error" \in DOMAIN resp
                                       THEN "FAIL" ELSE "PASS")
    /\ sub_pc' = "ended"
    /\ UNCHANGED <<res_caps, res_001, suite_resources, run_resources, n_resources, subscribed_uri>>
    /\ UNCHANGED clientVars
    /\ UNCHANGED exceptSub

SpecSub ==
    InitSub /\ [][RunResourcesCaptures \/ RunNotificationsConstructs \/ Sub001Begin
                  \/ Sub001Ends \/ Sub002Begin \/ Sub002Ends]_vars

(***************************************************************************)
(* MCPClient.initialize (client.py lines 55-68).  Specification            *)
(* SpecInitialize calls it up to MaxRequests times on one client.          *)
(***************************************************************************)

\* lines 55-64 and _send_request lines 22-33: the call begins, takes the next
\* id and hands the initialize request to the transport, whose send may raise.
InitializeSend ==
    /\ i_pc # "waiting"
    /\ next_id <= MaxRequests
    /\ next_id' = Advanced(next_id)
    /\ assigned' = Append(assigned, next_id)
    /\ i_before' = [server_info |-> server_info, capabilities |-> capabilities,
                    sent |-> Len(sent)]
    /\ i_resp' = <<>>
    /\ \E send_ok \in BOOLEAN :
          IF send_ok
          THEN /\ sent' = Append(sent, [jsonrpc |-> "2.0", id |-> next_id,
                                        method |-> "initialize",
                                        params |-> "{protocolVersion, capabilities, clientInfo}"])
               /\ i_pc' = "waiting"
          ELSE /\ sent' = sent
               /\ i_pc' = "raised"
    /\ UNCHANGED <<server_info, capabilities>>
    /\ UNCHANGED exceptInit

\* lines 64-68: _receive_response raises (timeout, closed connection); or it
\* returns a response whose result is not an object, and .get raises; or it
\* returns a response, an error or a result object that may hold serverInfo
\* and capabilities, the two fields are recorded and notifications/initialized
\* is handed to the transport, whose send may raise.
InitializeReceive ==
    LET Field(has, k, v) == IF has THEN k :> v ELSE <<>>
        Responses ==
            { [jsonrpc |-> "2.0", id |-> next_id - 1, error |-> "{code, message}"] }
            \cup { [jsonrpc |-> "2.0", id |-> next_id - 1,
                    result |-> Field(has_info, "serverInfo", "{name, version}")
                               @@ Field(c.kind # "missing", "capabilities", c)] :
                     has_info \in BOOLEAN, c \in CapabilityValues }
    IN
    /\ i_pc = "waiting"
    /\ \/ /\ i_pc' = "raised"
          /\ UNCHANGED <<server_info, capabilities, sent, i_resp>>
       \/ /\ i_resp' = << [jsonrpc |-> "2.0", id |-> next_id - 1, result |-> "not an object"] >>
          /\ i_pc' = "raised"
          /\ UNCHANGED <<server_info, capabilities, sent>>
       \/ \E resp \in Responses, notify_ok \in BOOLEAN :
             /\ i_resp' = <<resp>>
             /\ IF "result" \in DOMAIN resp
                THEN /\ server_info' = Get(resp.result, "serverInfo", None)
                     /\ capabilities' = Get(resp.result, "capabilities", Object({}, FALSE))
                ELSE UNCHANGED <<server_info, capabilities>>
             /\ IF notify_ok
                THEN /\ sent' = Append(sent, [jsonrpc |-> "2.0",
                                              method |-> "notifications/initialized"])
                     /\ i_pc' = "returned"
                ELSE /\ sent' = sent
                     /\ i_pc' = "raised"
    /\ UNCHANGED <<next_id, assigned, i_before>>
    /\ UNCHANGED exceptInit

\* A new client (lines 13-19) on which initialize has not been called.
InitInitialize == ClientIdle /\ IdleExcept({"client"})

SpecInitialize == InitInitialize /\ [][InitializeSend \/ InitializeReceive]_vars

(***************************************************************************)
(* LifecycleSuite (suites/lifecycle.py) on the main client, its checks in  *)
(* the order of their identifiers (base.py line 46), INIT-005 and INIT-006 *)
(* on transports of their own, then the rest of Runner.run (runner.py      *)
(* lines 101-125).  INIT-001 calls MCPClient.initialize, which is          *)
(* InitializeSend and InitializeReceive.  Specification SpecLifecycle.     *)
(***************************************************************************)
MaxLater == 2     \* requests the suites after lifecycle send on the main transport

\* The main client as INIT-005 and INIT-006 could change it.
MainClient ==
    [next_id |-> next_id, capabilities |-> capabilities,
     received_notifications |-> received_notifications, sent |-> Len(sent)]

\* A check that pings whatever INIT-001 did.
NeverSkips(response) == FALSE

\* lifecycle.py lines 90-91, 100-101, 110-111: self._init_response is None
InitResponseIsNone(response) == response = <<>>

\* A check that stops only the transport it has started.
FinallyIfStarted(transport) ==
    IF transport.state = "started" THEN [transport EXCEPT !.state = "stopped"] ELSE transport

\* lines 47-48 and 77-78: finally: await transport.stop()
Finally(transport) == [transport EXCEPT !.state = "stopped"]

\* How far the try block of INIT-005 (lines 31-46) and of INIT-006 (lines
\* 53-76) gets, what it has sent on its transport by then, and how the body
\* ends if stop returns: start raises; send raises; temp_client.initialize
\* raises; receive raises TimeoutError or ConnectionError; an error response;
\* any other response.
OwnPaths(n) ==
    LET first == IF n = 5 THEN <<"tools/list">>
                 ELSE <<"initialize", "notifications/initialized", "initialize">>
        Path(started, k, end) ==
            [started |-> started, sent |-> SubSeq(first, 1, k), end |-> end]
    IN  { Path(FALSE, 0, "raised") }
        \cup { Path(TRUE, k, "raised") : k \in 0..(Len(first) - 1) }
        \cup { Path(TRUE, Len(first), end) : end \in {"PASS", "WARN"} }

InitLifecycle ==
    /\ LifecycleIdle
    /\ ClientIdle
    /\ IdleExcept({"lifecycle", "client"})

\* INIT-001 line 82: initialize is called.
Init001Calls ==
    /\ life_pc = 1
    /\ i_pc = "idle"
    /\ InitializeSend

\* INIT-001 line 82: initialize awaits its response.
Init001Awaits ==
    /\ life_pc = 1
    /\ InitializeReceive

\* INIT-001 lines 82-86 and base.py lines 57-93: initialize has returned or
\* raised, and the result is recorded.
Init001Ends ==
    /\ life_pc = 1
    /\ i_pc \in {"returned", "raised"}
    /\ init_response' = IF i_pc = "returned" THEN i_resp ELSE init_response
    /\ life_results' =
          Append(life_results,
                 [check |-> 1, main |-> MainClient,
                  status |-> IF i_pc = "returned" /\ "result" \in DOMAIN i_resp[1]
                             THEN "PASS" ELSE "FAIL"])
    /\ life_pc' = 2
    /\ UNCHANGED <<own, own_pc, own_end, main_before>>
    /\ UNCHANGED <<clientVars, initVars>>
    /\ UNCHANGED exceptLifecycle

\* INIT-002 and INIT-003 (lines 88-106) send nothing.
Init002And003 ==
    /\ life_pc \in {2, 3}
    /\ \E status \in {"PASS", "FAIL"} :
          life_results' =
             Append(life_results,
                    [check |-> life_pc, main |-> MainClient,
                     status |-> IF InitResponseIsNone(init_response) THEN "SKIP" ELSE status])
    /\ life_pc' = life_pc + 1
    /\ UNCHANGED <<init_response, own, own_pc, own_end, main_before>>
    /\ UNCHANGED <<clientVars, initVars>>
    /\ UNCHANGED exceptLifecycle

\* INIT-004 (lines 108-125): the skip; or the ping goes out through send_raw
\* and is answered, or the connection is closed, or it times out and
\* tools/list goes out through _send_request, which returns or raises.
Init004 ==
    /\ life_pc = 4
    /\ IF InitResponseIsNone(init_response)
       THEN /\ life_results' = Append(life_results,
                                      [check |-> 4, main |-> MainClient, status |-> "SKIP"])
            /\ UNCHANGED clientVars
       ELSE \E outcome \in {"pong", "closed", "silent, then answers", "silent"} :
               LET ping == [jsonrpc |-> "2.0", id |-> 9992, method |-> "ping"]
                   list == [jsonrpc |-> "2.0", id |-> next_id, method |-> "tools/list",
                            params |-> <<>>]
                   again == outcome \in {"silent, then answers", "silent"}
               IN  /\ sent' = IF again THEN sent \o <<ping, list>> ELSE Append(sent, ping)
                   /\ next_id' = IF again THEN Advanced(next_id) ELSE next_id
                   /\ assigned' = IF again THEN Append(assigned, next_id) ELSE assigned
                   /\ life_results' =
                         Append(life_results,
                                [check |-> 4,
                                 main |-> [MainClient EXCEPT !.next_id = next_id',
                                                             !.sent = Len(sent')],
                                 status |-> IF outcome \in {"closed", "silent"}
                                            THEN "FAIL" ELSE "PASS"])
                   /\ UNCHANGED <<received_notifications, c_pc, c_op, expected_id, returned,
                                  delivered, c_recv>>
    /\ life_pc' = 5
    /\ UNCHANGED <<init_response, own, own_pc, own_end, main_before>>
    /\ UNCHANGED initVars
    /\ UNCHANGED exceptLifecycle

\* INIT-005 line 30, INIT-006 line 52: transport = self._transport_factory()
OwnBegins ==
    /\ life_pc \in {5, 6}
    /\ own_pc = "idle"
    /\ own' = Append(own, [check |-> life_pc, state |-> "created", sent |-> <<>>])
    /\ main_before' = Append(main_before, MainClient)
    /\ own_pc' = "try"
    /\ UNCHANGED <<life_pc, init_response, own_end, life_results>>
    /\ UNCHANGED <<clientVars, initVars>>
    /\ UNCHANGED exceptLifecycle

\* The try block of INIT-005 (lines 31-46) and of INIT-006 (lines 53-76)
\* up to the return or the exception that leaves it.
OwnTries ==
    /\ own_pc = "try"
    /\ \E path \in OwnPaths(life_pc) :
          /\ own' = [own EXCEPT ![Len(own)] =
                        [@ EXCEPT !.state = IF path.started THEN "started" ELSE @,
                                  !.sent = path.sent]]
          /\ own_end' = <<path.end>>
    /\ own_pc' = "finally"
    /\ UNCHANGED <<life_pc, init_response, main_before, life_results>>
    /\ UNCHANGED <<clientVars, initVars>>
    /\ UNCHANGED exceptLifecycle

\* The finally block (lines 47-48, 77-78); an exception out of stop
\* replaces the way the body ended.
OwnFinally ==
    /\ own_pc = "finally"
    /\ own' = [own EXCEPT ![Len(own)] = Finally(@)]
    /\ \E stop_raises \in BOOLEAN :
          own_end' = IF stop_raises THEN <<"raised">> ELSE own_end
    /\ own_pc' = "record"
    /\ UNCHANGED <<life_pc, init_response, main_before, life_results>>
    /\ UNCHANGED <<clientVars, initVars>>
    /\ UNCHANGED exceptLifecycle

\* base.py lines 57-93: the result of INIT-005 or INIT-006 is recorded; after
\* INIT-006 the suite returns and the runner aborts the run when INIT-001
\* ended in FAIL (runner.py lines 153-158).
OwnRecords ==
    /\ own_pc = "record"
    /\ life_results' =
          Append(life_results,
                 [check |-> life_pc, main |-> MainClient,
                  status |-> IF own_end = <<"raised">> THEN "FAIL" ELSE own_end[1]])
    /\ own_pc' = "idle"
    /\ life_pc' = IF life_pc = 5 THEN 6
                  ELSE IF life_results[1].status = "FAIL" THEN 8 ELSE 7
    /\ UNCHANGED <<init_response, own, own_end, main_before>>
    /\ UNCHANGED <<clientVars, initVars>>
    /\ UNCHANGED exceptLifecycle

\* runner.py lines 103-125: the suites after lifecycle send their requests
\* on the main transport, and the run returns.
LaterSuites ==
    /\ life_pc = 7
    /\ \E n \in 0..MaxLater :
          /\ sent' = sent \o [k \in 1..n |-> [jsonrpc |-> "2.0", id |-> next_id + k - 1,
                                              method |-> "tools/list", params |-> <<>>]]
          /\ next_id' = next_id + n
          /\ assigned' = assigned \o [k \in 1..n |-> next_id + k - 1]
    /\ life_pc' = 8
    /\ UNCHANGED <<received_notifications, c_pc, c_op, expected_id, returned, delivered, c_recv>>
    /\ UNCHANGED <<init_response, own, own_pc, own_end, main_before, life_results>>
    /\ UNCHANGED initVars
    /\ UNCHANGED exceptLifecycle

SpecLifecycle ==
    InitLifecycle /\ [][Init001Calls \/ Init001Awaits \/ Init001Ends \/ Init002And003
                        \/ Init004 \/ OwnBegins \/ OwnTries \/ OwnFinally \/ OwnRecords
                        \/ LaterSuites]_vars

(***************************************************************************)
(* StdioTransport and its child process (transport/stdio.py).              *)
(* Specification SpecStdio starts one transport, lets the child write up   *)
(* to MaxLines lines and exit, and calls receive and stop.  A child that   *)
(* gets SIGTERM exits GracePeriod - 1 to MaxTermDelay seconds later.       *)
(***************************************************************************)

MaxLines     == 3     \* lines the child writes to its stdout
MaxReceives  == 3     \* calls of receive
MaxTermDelay == 6     \* longest time (s) a child takes to exit after SIGTERM
GracePeriod  == 5     \* stop line 53: timeout=5.0

\* What one line of the child's stdout can be: a JSON text, a text that is
\* not JSON, white space only, bytes that are not UTF-8, and a JSON text of
\* 64 KiB or more (the StreamReader limit create_subprocess_exec leaves at
\* its default).
LineKinds == { "json", "text", "blank", "undecodable", "oversize_json" }

\* _read_line lines 68-82 inside receive (line 45), run on the lines in
\* `buf`: blank lines are skipped, lines json.loads rejects are counted,
\* the first JSON line is returned; readline raises ValueError on a line over
\* the limit and decode raises UnicodeDecodeError, neither caught, the line
\* being consumed; with nothing left, end-of-stream raises ConnectionError
\* and a silent child lets wait_for raise TimeoutError.
RECURSIVE _read_line(_, _, _, _)
_read_line(buf, eof, read, count) ==
    LET End(e) == [rest |-> Tail(buf), read |-> Append(read, Head(buf)), count |-> count, end |-> e]
    IN  IF buf = <<>>
        THEN [rest |-> buf, read |-> read, count |-> count,
              end |-> [raised |-> IF eof THEN "ConnectionError" ELSE "TimeoutError"]]
        ELSE CASE Head(buf).kind = "oversize_json" -> End([raised |-> "ValueError"])
               [] Head(buf).kind = "undecodable" -> End([raised |-> "UnicodeDecodeError"])
               [] Head(buf).kind = "blank" ->
                      _read_line(Tail(buf), eof, Append(read, Head(buf)), count)
               [] Head(buf).kind = "text" ->
                      _read_line(Tail(buf), eof, Append(read, Head(buf)), count + 1)
               [] OTHER -> End([returned |-> Head(buf)])

\* A transport that follows every SIGTERM with SIGKILL.
SignalsAlwaysKill(term_ok, in_grace, kill_ok) ==
    << [sig |-> "SIGTERM", delivered |-> term_ok],
       [sig |-> "SIGKILL", delivered |-> kill_ok] >>

\* stop lines 51-59: terminate(), then kill() when the wait timed out or
\* terminate() raised ProcessLookupError.
Signals(term_ok, in_grace, kill_ok) ==
    IF in_grace
    THEN << [sig |-> "SIGTERM", delivered |-> term_ok] >>
    ELSE << [sig |-> "SIGTERM", delivered |-> term_ok],
            [sig |-> "SIGKILL", delivered |-> kill_ok] >>

\* A transport after construction.
InitStdio == IdleExcept({})

\* start (lines 26-35): the child is spawned and the stderr reader task
\* created.  (A spawn that fails leaves the transport as constructed.)
Start ==
    /\ child = "none"
    /\ child' = "running"
    /\ t_running' = TRUE
    /\ stderr_task' = "running"
    /\ UNCHANGED <<term_delay, returncode, t_stdout, t_eof, t_read, non_json_lines, t_out,
                   return_code, signals, st_pc>>
    /\ UNCHANGED exceptStdio

\* The child writes a line to stdout, or writes to stderr a line that makes
\* _read_stderr (lines 84-93) raise, or exits.
ChildActs ==
    /\ child = "running"
    /\ \/ /\ Len(t_read) + Len(t_stdout) < MaxLines
          /\ \E k \in LineKinds :
                t_stdout' = Append(t_stdout, [kind |-> k, n |-> Len(t_read) + Len(t_stdout) + 1])
          /\ UNCHANGED <<child, returncode, t_eof, stderr_task>>
       \/ /\ stderr_task = "running"
          /\ stderr_task' = "failed"
          /\ UNCHANGED <<child, returncode, t_eof, t_stdout>>
       \/ /\ child' = "exited"
          /\ returncode' = <<0>>
          /\ t_eof' = TRUE
          /\ stderr_task' = IF stderr_task = "running" THEN "finished" ELSE stderr_task
          /\ UNCHANGED t_stdout
    /\ UNCHANGED <<term_delay, t_read, non_json_lines, t_out, t_running, return_code, signals, st_pc>>
    /\ UNCHANGED exceptStdio

\* receive (lines 44-45) on a started transport.
Receive ==
    /\ child # "none"
    /\ Len(t_out) < MaxReceives
    /\ LET r == _read_line(t_stdout, t_eof, t_read, non_json_lines)
       IN  /\ t_stdout' = r.rest
           /\ t_read' = r.read
           /\ non_json_lines' = r.count
           /\ t_out' = Append(t_out, r.end)
    /\ UNCHANGED <<child, term_delay, returncode, t_eof, t_running, return_code, stderr_task,
                   signals, st_pc>>
    /\ UNCHANGED exceptStdio

\* stop (lines 47-66).  A child that was running gets SIGTERM and exits in
\* time or is killed after GracePeriod; for a child that had exited,
\* terminate() raises ProcessLookupError once the loop has reaped it (and so
\* does kill()) and is a no-op before.  Awaiting a stderr reader that failed
\* raises its exception.  (Before start, stop returns at once, lines 48-49.)
Stop ==
    /\ child # "none"
    /\ t_running' = FALSE
    /\ IF child = "running"
       THEN \E d \in (GracePeriod - 1)..MaxTermDelay, in_grace \in BOOLEAN,
               kill_delivered \in BOOLEAN :
               /\ term_delay' = d
               /\ d < GracePeriod => in_grace
               /\ d > GracePeriod => ~in_grace
               /\ in_grace => kill_delivered
               /\ signals' = Signals(TRUE, in_grace, kill_delivered)
               /\ returncode' =
                     IF Len(Signals(TRUE, in_grace, kill_delivered)) = 2 /\ kill_delivered
                     THEN <<-9>> ELSE <<-15>>
       ELSE /\ \E reaped \in BOOLEAN : signals' = Signals(FALSE, ~reaped, FALSE)
            /\ UNCHANGED <<term_delay, returncode>>
    /\ child' = "exited"
    /\ t_eof' = TRUE
    /\ return_code' = returncode'
    /\ stderr_task' = IF stderr_task = "running" THEN "finished" ELSE stderr_task
    /\ st_pc' = IF stderr_task = "failed" THEN "raised" ELSE "returned"
    /\ UNCHANGED <<t_stdout, t_read, non_json_lines, t_out>>
    /\ UNCHANGED exceptStdio

SpecStdio == InitStdio /\ [][Start \/ ChildActs \/ Receive \/ Stop]_vars

(***************************************************************************)
(* HttpTransport (transport/http.py).  Specification SpecHttp constructs   *)
(* one transport with the caller's headers and sends up to MaxPosts        *)
(* messages to a server that answers each POST as it likes.                *)
(***************************************************************************)

MaxPosts == 2     \* calls of send

\* The headers the command line can hand over (cli.py lines 140-144, 171).
CustomHeaders ==
    { <<>>,
      << <<"Authorization", "Bearer t">> >>,
      << <<"Mcp-Session-Id", "custom">> >>,
      << <<"Authorization", "Bearer t">>, <<"mcp-session-id", "custom">> >> }

\* What the server can answer to a POST: an HTTP error status; nothing,
\* the connection failing (urlopen raises URLError) or staying silent until
\* the timeout (urlopen raises TimeoutError); or a 200 that may carry an
\* Mcp-Session-Id and whose body is whole, is cut off by the connection
\* closing before Content-Length bytes came (response.read raises
\* IncompleteRead), or is an event stream that is not UTF-8 (body.decode
\* raises).  `events` tells of each event of an event stream, in stream
\* order, whether its data is JSON, and of a body of another type whether it
\* is JSON.
Responses ==
    { [status |-> c] : c \in {401, 500} }
    \cup { [status |-> 0, error |-> e] : e \in {"URLError", "TimeoutError"} }
    \cup [status : {200}, session : { <<>>, <<"s1">>, <<"s2">> },
          content_type : {"application/json"}, body : {"whole"},
          events : { <<TRUE>>, <<FALSE>> }]
    \cup [status : {200}, session : { <<>>, <<"s1">> },
          content_type : {"text/event-stream"}, body : {"whole"},
          events : { <<>>, <<TRUE>>, <<FALSE, TRUE>>, <<TRUE, FALSE, TRUE>> }]
    \cup [status : {200}, session : { <<>> },
          content_type : {"text/plain"}, body : {"whole"},
          events : { <<TRUE>>, <<FALSE>> }]
    \cup [status : {200}, session : { <<>>, <<"s1">> },
          content_type : {"application/json"}, body : {"truncated"}, events : { <<>> }]
    \cup [status : {200}, session : { <<>> },
          content_type : {"text/event-stream"}, body : {"not_utf8"}, events : { <<>> }]

\* A transport that puts new messages in front of the queue.
EnqueuedInFront(queue, post, events) ==
    SelectSeq([i \in 1..Len(events) |-> [post |-> post, n |-> i, json |-> events[i]]],
              LAMBDA m : m.json) \o queue

\* send lines 62-78, parse_sse_json_stream (sse.py lines 56-61): the messages
\* decoded from the body of POST number `post` are put at the end of
\* _pending_messages in body order; data that is not JSON is dropped.
Enqueued(queue, post, events) ==
    queue \o SelectSeq([i \in 1..Len(events) |-> [post |-> post, n |-> i, json |-> events[i]]],
                       LAMBDA m : m.json)

\* send lines 36-45: the headers dict (the session header when a session id
\* is held, then dict.update with the custom headers), as
\* urllib.request.Request stores it: add_header keys each header by
\* name.capitalize(), a later header replacing an earlier one of that key.
Headers(session, custom) ==
    LET Put(d, kv) ==
            IF \E i \in DOMAIN d : d[i][1] = kv[1]
            THEN [i \in DOMAIN d |-> IF d[i][1] = kv[1] THEN kv ELSE d[i]]
            ELSE Append(d, kv)
        base == << <<"Content-Type", "application/json">>,
                   <<"Accept", "application/json, text/event-stream">> >>
                \o (IF session # <<>> THEN << <<"Mcp-Session-Id", session[1]>> >> ELSE <<>>)
        updated[i \in 0..Len(custom)] == IF i = 0 THEN base ELSE Put(updated[i - 1], custom[i])
        dict == updated[Len(custom)]
        Capitalize(name) ==
            CASE name = "Content-Type" -> "Content-type"
              [] name \in {"Mcp-Session-Id", "mcp-session-id"} -> "Mcp-session-id"
              [] OTHER -> name
        request[i \in 0..Len(dict)] ==
            IF i = 0 THEN <<>> ELSE (Capitalize(dict[i][1]) :> dict[i][2]) @@ request[i - 1]
    IN  request[Len(dict)]

\* HttpTransport(url, headers) as cli.py constructs it.
InitHttp ==
    /\ custom_headers \in CustomHeaders
    /\ session_id = <<>>
    /\ pending_messages = <<>>
    /\ posts = <<>>
    /\ responses = <<>>
    /\ send_out = <<>>
    /\ http_out = <<>>
    /\ IdleExcept({"http"})

\* send (lines 35-78): the POST goes out; 401 raises AuthRequiredError, any
\* other error status or a URLError ConnectionError, a TimeoutError of
\* urlopen is not caught; a 200 has its Mcp-Session-Id adopted, then its body
\* read (IncompleteRead is not caught) and decoded by content type: every
\* decoded event of an event stream is queued, an application/json body is
\* queued or raises ConnectionError when it is not JSON, a body of another
\* type is queued when it is not empty and is JSON.
HttpSend ==
    /\ Len(posts) < MaxPosts
    /\ posts' = Append(posts, Headers(session_id, custom_headers))
    /\ \E resp \in Responses :
          /\ responses' = Append(responses, resp)
          /\ IF resp.status # 200
             THEN /\ send_out' = Append(send_out,
                                        CASE resp.status = 401 -> "AuthRequiredError"
                                          [] resp.status = 0 /\ resp.error = "TimeoutError" ->
                                                 "TimeoutError"
                                          [] OTHER -> "ConnectionError")
                  /\ UNCHANGED <<session_id, pending_messages>>
             ELSE /\ session_id' = IF resp.session # <<>> THEN resp.session ELSE session_id
                  /\ pending_messages' = Enqueued(pending_messages, Len(posts) + 1, resp.events)
                  /\ send_out' = Append(send_out,
                                        CASE resp.body = "truncated" -> "IncompleteRead"
                                          [] resp.body = "not_utf8" -> "UnicodeDecodeError"
                                          [] /\ resp.content_type = "application/json"
                                             /\ resp.events = <<FALSE>> -> "ConnectionError"
                                          [] OTHER -> "returned")
    /\ UNCHANGED <<custom_headers, http_out>>
    /\ UNCHANGED exceptHttp

\* receive (lines 80-81): the head of the queue, or TimeoutError when the
\* queue stays empty.
HttpReceive ==
    /\ Len(http_out) < MaxReceives
    /\ IF pending_messages # <<>>
       THEN /\ http_out' = Append(http_out, [returned |-> Head(pending_messages)])
            /\ pending_messages' = Tail(pending_messages)
       ELSE /\ http_out' = Append(http_out, [raised |-> "TimeoutError"])
            /\ UNCHANGED pending_messages
    /\ UNCHANGED <<custom_headers, session_id, posts, responses, send_out>>
    /\ UNCHANGED exceptHttp

SpecHttp == InitHttp /\ [][HttpSend \/ HttpReceive]_vars

(***************************************************************************)
(* A receive awaited by one task while another task stops the transport    *)
(* (stdio.py lines 44-82, http.py lines 80-98).  The child, start, stop    *)
(* and send are those of SpecStdio and SpecHttp.  Specification            *)
(* SpecPending.                                                            *)
(***************************************************************************)

\* stop has been called (and, being one step here, has ended).
StopCalled == IF pend_kind = "stdio" THEN st_pc # "idle" ELSE http_stop # <<>>

\* What the awaited receive waits for is there: a line or the end of the
\* child's stdout (readline, stdio.py line 72), a message in the queue
\* (Queue.get, http.py line 81).
Readable ==
    IF pend_kind = "stdio" THEN t_stdout # <<>> \/ t_eof ELSE pending_messages # <<>>

InitPending ==
    /\ pend_kind \in {"stdio", "http"}
    /\ recv_pc = "idle"
    /\ recv_out = <<>>
    /\ http_stop = <<>>
    /\ custom_headers \in CustomHeaders
    /\ session_id = <<>>
    /\ pending_messages = <<>>
    /\ posts = <<>>
    /\ responses = <<>>
    /\ send_out = <<>>
    /\ http_out = <<>>
    /\ IdleExcept({"pending", "http"})

\* receive is called on a started transport that has not been stopped
\* (stdio.py line 45, http.py line 81): wait_for awaits the read.
ReceiveBegins ==
    /\ recv_pc = "idle"
    /\ pend_kind = "stdio" => child # "none"
    /\ ~StopCalled
    /\ recv_pc' = "pending"
    /\ UNCHANGED <<pend_kind, recv_out, http_stop>>
    /\ UNCHANGED <<stdioVars, httpVars>>
    /\ UNCHANGED exceptPending

\* The awaited read is woken.  On stdio _read_line goes through the lines
\* that are there and keeps waiting when none of them ends it; on HTTP
\* Queue.get returns the head of the queue.
ReceiveWakes ==
    /\ recv_pc = "pending"
    /\ Readable
    /\ IF pend_kind = "stdio"
       THEN LET r == _read_line(t_stdout, t_eof, t_read, non_json_lines)
            IN  /\ t_stdout' = r.rest
                /\ t_read' = r.read
                /\ non_json_lines' = r.count
                /\ IF r.end = [raised |-> "TimeoutError"]
                   THEN UNCHANGED <<recv_pc, recv_out>>
                   ELSE /\ recv_pc' = "ended"
                        /\ recv_out' = <<[end |-> r.end, after_stop |-> StopCalled]>>
                /\ UNCHANGED <<child, term_delay, returncode, t_eof, t_out, t_running,
                               return_code, stderr_task, signals, st_pc>>
                /\ UNCHANGED httpVars
       ELSE /\ recv_pc' = "ended"
            /\ recv_out' = <<[end |-> [returned |-> Head(pending_messages)],
                              after_stop |-> StopCalled]>>
            /\ pending_messages' = Tail(pending_messages)
            /\ UNCHANGED <<custom_headers, session_id, posts, responses, send_out, http_out>>
            /\ UNCHANGED stdioVars
    /\ UNCHANGED <<pend_kind, http_stop>>
    /\ UNCHANGED exceptPending

\* The timeout of wait_for elapses with nothing to read: TimeoutError.
ReceiveTimesOut ==
    /\ recv_pc = "pending"
    /\ ~Readable
    /\ recv_pc' = "ended"
    /\ recv_out' = <<[end |-> [raised |-> "TimeoutError"], after_stop |-> StopCalled]>>
    /\ UNCHANGED <<pend_kind, http_stop>>
    /\ UNCHANGED <<stdioVars, httpVars>>
    /\ UNCHANGED exceptPending

\* HttpTransport.stop (http.py lines 83-98): without a session it returns at
\* once; with one it sends DELETE and swallows every failure.  The queue is
\* not touched.
HttpStop ==
    /\ pend_kind = "http"
    /\ http_stop = <<>>
    /\ IF session_id = <<>>
       THEN http_stop' = <<"no session">>
       ELSE \E outcome \in {"200", "405", "500", "URLError"} : http_stop' = <<outcome>>
    /\ UNCHANGED <<pend_kind, recv_pc, recv_out>>
    /\ UNCHANGED <<stdioVars, httpVars>>
    /\ UNCHANGED exceptPending

\* The other task and the server act on the transport in use.
OnStdio == pend_kind = "stdio" /\ (Start \/ ChildActs \/ Stop)
OnHttp  == pend_kind = "http" /\ (HttpSend \/ HttpStop)

SpecPending ==
    InitPending /\ [][OnStdio \/ OnHttp \/ ReceiveBegins \/ ReceiveWakes \/ ReceiveTimesOut]_vars

(***************************************************************************)
(* The command line (cli.py _run lines 120-209, main lines 212-236) on a   *)
(* stdio target, under asyncio.run, which turns the first SIGINT into a    *)
(* cancellation of _run at the await it is in and a later one into a       *)
(* KeyboardInterrupt out of the event loop.  Specification SpecCli.        *)
(***************************************************************************)

MaxTrace      == 4     \* calls on the main transport that the trace records
MaxInterrupts == 2     \* SIGINTs sent to the process

\* What --suite can hold.
SuiteLists ==
    { <<>>, <<"tools">>, <<"edge", "lifecycle">>, <<"nonexistent">>, <<"tools", "edge_cases">> }

\* A Runner that takes any name.
AnyNameValid(names) == TRUE

\* Runner.__init__ (runner.py lines 66-72): no ValueError.
Valid(names) == \A i \in 1..Len(names) : names[i] \in _VALID_SUITE_NAMES

\* A _run without the finally.
NotStopped(ops) == ops

\* _run lines 192-193: finally: await transport.stop()
Stopped(ops) == Append(ops, "stop")

\* main lines 212-224: the command line is parsed, nothing is started.
InitCli ==
    /\ cli_pc = "parsed"
    /\ cli_suites \in SuiteLists
    /\ trace = <<>>
    /\ pending = "nothing"
    /\ interrupts = 0
    /\ emitted = FALSE
    /\ sys_exit = <<>>
    /\ IdleExcept({"cli"})

\* transport.stop() is entered (stdio.py lines 47-53): SIGTERM goes to the
\* child, which will take d seconds to exit, and stop waits for it.
StopBegins(why) ==
    /\ pending' = why
    /\ trace' = Stopped(trace)
    /\ cli_pc' = "stopping"
    /\ \E d \in (GracePeriod - 1)..MaxTermDelay : term_delay' = d
    /\ signals' = Signals(TRUE, TRUE, TRUE)
    /\ UNCHANGED child

\* _run lines 178-190: await transport.start(), then MCPClient and Runner are
\* constructed with no await in between.  A start that raises leaves through
\* main's except Exception (line 232); a Runner that raises ValueError enters
\* the finally.
CliBegin ==
    /\ cli_pc = "parsed"
    /\ \/ /\ trace' = Append(trace, "start failed")
          /\ cli_pc' = "exited"
          /\ sys_exit' = <<2>>
          /\ UNCHANGED <<pending, child, term_delay, signals>>
       \/ /\ Valid(cli_suites)
          /\ trace' = Append(trace, "start")
          /\ child' = "running"
          /\ cli_pc' = "running"
          /\ UNCHANGED <<pending, term_delay, signals, sys_exit>>
       \/ /\ ~Valid(cli_suites)
          /\ pending' = "ValueError"
          /\ trace' = Stopped(Append(trace, "start"))
          /\ child' = "running"
          /\ cli_pc' = "stopping"
          /\ \E d \in (GracePeriod - 1)..MaxTermDelay : term_delay' = d
          /\ signals' = Signals(TRUE, TRUE, TRUE)
          /\ UNCHANGED sys_exit
    /\ UNCHANGED <<cli_suites, interrupts, emitted>>
    /\ UNCHANGED exceptCli

\* runner.run() (line 191) at work: the client sends on the main transport
\* or waits on a receive.
CliTraffic ==
    /\ cli_pc = "running"
    /\ Len(trace) < MaxTrace
    /\ \E op \in {"send", "receive"} : trace' = Append(trace, op)
    /\ UNCHANGED <<cli_pc, cli_suites, pending, interrupts, emitted, sys_exit,
                   child, term_delay, signals>>
    /\ UNCHANGED exceptCli

\* runner.run() returns its report, complete or aborted, or raises; control
\* enters the finally (lines 192-193).
CliRunEnds ==
    /\ cli_pc = "running"
    /\ \E why \in {"report", "Exception"} : StopBegins(why)
    /\ UNCHANGED <<cli_suites, interrupts, emitted, sys_exit>>
    /\ UNCHANGED exceptCli

\* SIGINT.  The first one cancels _run where it awaits: inside runner.run()
\* the CancelledError passes every except Exception and enters the finally;
\* inside transport.stop() it ends the wait of stdio.py line 53, which only
\* catches TimeoutError and ProcessLookupError, so stop is left before the
\* kill of line 55 and main exits through line 229.  A second one ends
\* asyncio.run the same way.  A child that was about to obey SIGTERM still
\* exits; one that ignores it stays.
CliInterrupt ==
    /\ interrupts < MaxInterrupts
    /\ interrupts' = interrupts + 1
    /\ \/ /\ cli_pc = "running"
          /\ StopBegins("CancelledError")
          /\ UNCHANGED <<emitted, sys_exit>>
       \/ /\ cli_pc = "stopping"
          /\ cli_pc' = "exited"
          /\ sys_exit' = <<130>>
          /\ child' = IF term_delay < GracePeriod THEN "exited" ELSE "running"
          /\ UNCHANGED <<trace, pending, emitted, term_delay, signals>>
    /\ UNCHANGED cli_suites
    /\ UNCHANGED exceptCli

\* What main does with what _run ended with (lines 194-209, 225-236).
CliLeaves(outcome) ==
    /\ cli_pc' = "exited"
    /\ emitted' = (outcome = "report")
    /\ \E code \in {0, 1} :
          sys_exit' = CASE outcome = "report"         -> <<code>>
                        [] outcome = "CancelledError" -> <<130>>
                        [] OTHER                      -> <<2>>

\* transport.stop() runs to its end (stdio.py lines 53-66): the child left
\* within the grace period or is killed; a stderr reader that failed makes
\* stop raise, and that exception replaces the one in flight.
CliStopEnds ==
    /\ cli_pc = "stopping"
    /\ \E in_grace \in { b \in BOOLEAN : (term_delay < GracePeriod => b)
                                          /\ (term_delay > GracePeriod => ~b) } :
          signals' = Signals(TRUE, in_grace, TRUE)
    /\ child' = "exited"
    /\ \E stop_raises \in BOOLEAN :
          CliLeaves(IF stop_raises THEN "Exception" ELSE pending)
    /\ UNCHANGED <<cli_suites, trace, pending, interrupts, term_delay>>
    /\ UNCHANGED exceptCli

SpecCli == InitCli /\ [][CliBegin \/ CliTraffic \/ CliRunEnds \/ CliInterrupt \/ CliStopEnds]_vars

(***************************************************************************)
(* parse_sse_stream (transport/sse.py lines 18-53).  A string is a         *)
(* sequence of tokens: the field names "data:", "event:" and "id:", the    *)
(* colon, white space and other characters.  The generator takes one line  *)
(* of its input per step.  Specification SpecSse.                          *)
(***************************************************************************)

MaxSseLines  == 3     \* raw lines in one input
MaxSseEvents == 2     \* events in one serialized input

\* The characters that str.strip() removes.
Whitespace == {" ", "\n", "\r"}

\* Sequences over S of at most n elements.
SeqsUpTo(S, n) == UNION { [1..k -> S] : k \in 0..n }

\* sse.py lines 11-15
SSEEvent(event, data, id) == [event |-> event, data |-> data, id |-> id]

\* str.strip(), as in line[5:].strip() (lines 43, 45, 47)
strip(str) ==
    LET kept == { i \in 1..Len(str) : str[i] \notin Whitespace }
    IN  IF kept = {} THEN <<>>
        ELSE SubSeq(str, CHOOSE i \in kept : \A j \in kept : i <= j,
                         CHOOSE i \in kept : \A j \in kept : i >= j)

\* raw_line.rstrip("\r\n") (line 28)
rstrip(str) ==
    LET kept == { i \in 1..Len(str) : str[i] \notin {"\r", "\n"} }
    IN  IF kept = {} THEN <<>>
        ELSE SubSeq(str, 1, CHOOSE i \in kept : \A j \in kept : i >= j)

\* line.startswith(prefix) for a one-token prefix
startswith(line, prefix) == line # <<>> /\ line[1] = prefix

\* "\n".join(data_buffer) (line 33)
join(buffer) ==
    LET upto[i \in 0..Len(buffer)] ==
            IF i = 0 THEN <<>>
            ELSE IF i = 1 THEN buffer[1]
            ELSE upto[i - 1] \o <<"\n">> \o buffer[i]
    IN  upto[Len(buffer)]

\* A parser whose blank line keeps the id.
AfterBlankKeepsId(locals) == [locals EXCEPT !.event_type = <<>>, !.data_buffer = <<>>]

\* lines 36-38: the locals after a blank line
AfterBlank(locals) == [event_type |-> <<>>, data_buffer |-> <<>>, event_id |-> <<>>]

\* Lines an input can hold: blank ones, comments, fields with and without
\* white space around the value, and lines that are none of these.
SseRawLines ==
    { <<>>, <<"\n">>, <<" ">>, <<":", "a">>, <<"x">>,
      <<"data:", "a", "\n">>, <<"data:", " ", "b", " ">>, <<"data:">>,
      <<"event:", " ", "e">>, <<"id:", "1", "\r", "\n">> }

\* Field values of events: empty, plain, of two lines, with white space in front.
SseData == { <<>>, <<"a">>, <<"a", "\n", "b">>, <<" ", "a">> }

SseEvents ==
    { SSEEvent(e, d, i) : e \in {<<>>, << <<"e">> >>}, d \in SseData, i \in {<<>>, << <<"1">> >>} }

\* str.split("\n")
split(str) ==
    LET parts[i \in 0..Len(str)] ==
            IF i = 0 THEN << <<>> >>
            ELSE IF str[i] = "\n" THEN Append(parts[i - 1], <<>>)
            ELSE [parts[i - 1] EXCEPT ![Len(parts[i - 1])] = Append(@, str[i])]
    IN  parts[Len(str)]

\* The EventSource convention for writing one event: an event: line and an
\* id: line when the field is set, one data: line per line of data, and a
\* blank line.
SerializedEvent(ev) ==
    (IF ev.event = <<>> THEN <<>> ELSE << <<"event:", " ">> \o ev.event[1] \o <<"\n">> >>)
    \o (IF ev.id = <<>> THEN <<>> ELSE << <<"id:", " ">> \o ev.id[1] \o <<"\n">> >>)
    \o [k \in 1..Len(split(ev.data)) |-> <<"data:", " ">> \o split(ev.data)[k] \o <<"\n">>]
    \o << <<"\n">> >>

Serialized(xs) ==
    LET upto[i \in 0..Len(xs)] ==
            IF i = 0 THEN <<>> ELSE upto[i - 1] \o SerializedEvent(xs[i])
    IN  upto[Len(xs)]

\* parse_sse_stream is called with raw lines, or with the lines of events
\* written out.
InitSse ==
    /\ \/ /\ sse_src = <<>>
          /\ sse_lines \in SeqsUpTo(SseRawLines, MaxSseLines)
       \/ \E xs \in SeqsUpTo(SseEvents, MaxSseEvents) :
             /\ sse_src = <<xs>>
             /\ sse_lines = Serialized(xs)
    /\ sse_read = <<>>
    /\ event_type = <<>>
    /\ data_buffer = <<>>
    /\ event_id = <<>>
    /\ sse_out = <<>>
    /\ sse_pc = "parsing"
    /\ IdleExcept({"sse"})

\* lines 27-48: one iteration of the loop.
SseTakeLine ==
    /\ sse_pc = "parsing"
    /\ sse_lines # <<>>
    /\ sse_lines' = Tail(sse_lines)
    /\ sse_read' = Append(sse_read, Head(sse_lines))
    /\ LET line == rstrip(Head(sse_lines))
           locals == [event_type |-> event_type, data_buffer |-> data_buffer,
                      event_id |-> event_id]
           after == CASE startswith(line, ":")      -> locals
                      [] line = <<>>                -> AfterBlank(locals)
                      [] startswith(line, "data:")  ->
                            [locals EXCEPT !.data_buffer = Append(@, strip(Tail(line)))]
                      [] startswith(line, "event:") ->
                            [locals EXCEPT !.event_type = <<strip(Tail(line))>>]
                      [] startswith(line, "id:")    ->
                            [locals EXCEPT !.event_id = <<strip(Tail(line))>>]
                      [] OTHER                      -> locals
       IN  /\ event_type' = after.event_type
           /\ data_buffer' = after.data_buffer
           /\ event_id' = after.event_id
           /\ sse_out' = IF line = <<>> /\ data_buffer # <<>>
                         THEN Append(sse_out, SSEEvent(event_type, join(data_buffer), event_id))
                         ELSE sse_out
    /\ UNCHANGED <<sse_src, sse_pc>>
    /\ UNCHANGED exceptSse

\* lines 50-53: the input is exhausted.
SseExhausted ==
    /\ sse_pc = "parsing"
    /\ sse_lines = <<>>
    /\ sse_out' = IF data_buffer # <<>>
                  THEN Append(sse_out, SSEEvent(event_type, join(data_buffer), event_id))
                  ELSE sse_out
    /\ sse_pc' = "done"
    /\ UNCHANGED <<sse_src, sse_lines, sse_read, event_type, data_buffer, event_id>>
    /\ UNCHANGED exceptSse

SpecSse == InitSse /\ [][SseTakeLine \/ SseExhausted]_vars

(***************************************************************************)
(* generate_valid_args (schema_utils.py).  A schema is a function from     *)
(* the keywords it has to their values; a generated value carries its      *)
(* Python type.  Specification SpecSchema.                                 *)
(***************************************************************************)

MaxMinItems == 2     \* the largest minItems of an array schema

\* A Python value: t is "None", "str", "int", "bool", "list" or "dict".
Value(t, v) == [t |-> t, v |-> v]
NoneValue == Value("None", <<>>)

\* schema_utils.py line 3
_COMPLEX_KEYWORDS == {"$ref", "anyOf", "oneOf", "allOf", "if"}

\* schema_utils.py lines 6-7
is_complex_schema(schema) == _COMPLEX_KEYWORDS \cap DOMAIN schema # {}

RECURSIVE _generate_value(_)
RECURSIVE _generate_object(_)

\* schema_utils.py lines 57-67
_generate_object(schema) ==
    LET properties == Get(schema, "properties", <<>>)
        required == Get(schema, "required", {})
        named == DOMAIN properties \cap required
    IN  IF \E name \in named : is_complex_schema(properties[name])
        THEN NoneValue
        ELSE Value("dict", [name \in named |-> _generate_value(properties[name])])

\* schema_utils.py lines 23-54
_generate_value(schema) ==
    LET typ == Get(schema, "type", None)
    IN  CASE is_complex_schema(schema) -> NoneValue
          [] "enum" \in DOMAIN schema -> schema["enum"][1]
          [] typ = "string" -> Value("str", "test")
          [] typ \in {"integer", "number"} -> Value("int", Get(schema, "minimum", 1))
          [] typ = "boolean" -> Value("bool", TRUE)
          [] typ = "array" ->
                LET min_items == Get(schema, "minItems", 0)
                IN  IF min_items > 0 /\ "items" \in DOMAIN schema
                    THEN Value("list", [k \in 1..min_items |-> _generate_value(schema["items"])])
                    ELSE Value("list", <<>>)
          [] typ = "object" \/ "properties" \in DOMAIN schema -> _generate_object(schema)
          [] OTHER -> Value("str", "test")

\* schema_utils.py lines 10-13
generate_valid_args(schema) ==
    IF is_complex_schema(schema) THEN NoneValue ELSE _generate_value(schema)

\* Schemas without schemas inside: a reference, the scalar types, an enum,
\* and the empty schema.
LeafSchemas ==
    { "$ref" :> "#/defs/Foo", "type" :> "string", "type" :> "integer",
      "type" :> "integer" @@ "minimum" :> 3, "type" :> "boolean",
      "enum" :> <<Value("str", "red"), Value("str", "blue")>>, <<>> }

ArraySchemas(of) ==
    { "type" :> "array" }
    \cup { "type" :> "array" @@ "minItems" :> n : n \in 1..MaxMinItems }
    \cup { "type" :> "array" @@ "minItems" :> n @@ "items" :> i : n \in 0..MaxMinItems, i \in of }

ObjectSchemas(of, names) ==
    { "type" :> "object" @@ "properties" :> ps @@ "required" :> req :
        ps \in UNION { [d -> of] : d \in SUBSET names }, req \in SUBSET names }

\* The inputSchema of a tool: an object schema that requires something, with
\* up to two properties, each a leaf, an array of leaves or an object of leaves.
ToolSchemas ==
    { schema \in ObjectSchemas(LeafSchemas \cup ArraySchemas(LeafSchemas)
                                 \cup ObjectSchemas(LeafSchemas, {"x"}), {"a", "b"}) :
        schema["required"] # {} }

InitSchema ==
    /\ g_schema \in ToolSchemas
    /\ g_args = <<>>
    /\ IdleExcept({"schema"})

\* tools.py line 93, tasks.py line 127: args = generate_valid_args(schema)
GenerateValidArgs ==
    /\ g_args = <<>>
    /\ g_args' = <<generate_valid_args(g_schema)>>
    /\ UNCHANGED g_schema
    /\ UNCHANGED exceptSchema

SpecSchema == InitSchema /\ [][GenerateValidArgs]_vars

(***************************************************************************)
(* Claims about _paginated_list (specification SpecPaging).                *)
(***************************************************************************)
\* result.nextCursor of a response, None when there is none.
NextCursorOf(resp) == Get(Get(resp, "result", <<>>), "nextCursor", None)

\* The concatenation, in order, of result[key] of the responses.
RECURSIVE Concatenation(_, _)
Concatenation(resps, key) ==
    IF resps = <<>> THEN <<>>
    ELSE Concatenation(SubSeq(resps, 1, Len(resps) - 1), key)
         \o Get(Get(resps[Len(resps)], "result", <<>>), key, <<>>)

\* C14: the first request carries no cursor and every later one exactly the
\* nextCursor of the page before; no request follows a page whose nextCursor
\* is absent, null or empty; the call returns at the first such page, and
\* returns the concatenation of result[key] of all the pages fetched.
C14_PaginationConcatenatesPages ==
    /\ \A i \in DOMAIN sent :
          IF i = 1
          THEN "cursor" \notin DOMAIN sent[i].params
          ELSE /\ "cursor" \in DOMAIN sent[i].params
               /\ sent[i].params.cursor = NextCursorOf(pages[i - 1])
    /\ \A i \in DOMAIN pages :
          Falsy(NextCursorOf(pages[i])) <=> (i = Len(pages) /\ p_pc = "returned")
    /\ p_pc = "returned" =>
          /\ Len(sent) = Len(pages)
          /\ items = Concatenation(pages, p_call[2])

\* Three pages were fetched with two different cursors and the call returned
\* three entries.
C14_Witness ==
    /\ p_pc = "returned"
    /\ Len(pages) = 3
    /\ sent[2].params.cursor # sent[3].params.cursor
    /\ items = <<"a", "b", "a">>

(***************************************************************************)
(* Claims about the runner (specification Spec).                           *)
(***************************************************************************)
\* The suites executed so far, as a set.
ExecutedSet == { executed[i] : i \in DOMAIN executed }

\* The lifecycle suite has run and its INIT-001 result is FAIL.
Init001Failed ==
    \E i \in DOMAIN executed :
        /\ executed[i] = "lifecycle"
        /\ HasStatus(report.suites[i], "INIT", 1, "FAIL")

\* The identifiers of the checks in a sequence of metadata or results.
Ids(q) == [i \in DOMAIN q |-> q[i].check_id]

\* C5: once INIT-001 is FAIL, lifecycle is the last suite executed (no jsonrpc,
\* tools, resources, prompts, notifications, tasks or edge check runs), and
\* run() has returned a report whose last entry holds the lifecycle results.
C5_FailedInitializeAborts ==
    Init001Failed =>
        /\ r_pc = "returned"
        /\ executed[Len(executed)] = "lifecycle"
        /\ Len(report.suites) = Len(executed)
        /\ Ids(report.suites[Len(report.suites)].checks) = Ids(SortedChecks["lifecycle"])

\* initialize timed out in a run with no suite list: INIT-001 is FAIL and the
\* run has returned.
C5_Witness ==
    /\ Init001Failed
    /\ r_pc = "returned"
    /\ explicitly_requested = {}
    /\ init_end[1].initialize.kind = "timeout"

\* Suite `name` is selected and passes the gate of its _run_ method.
Eligible(name) ==
    /\ _should_run_suite(name)
    /\ name \in {"tools", "resources", "prompts", "tasks"} =>
          has_capability(name) \/ name \in explicitly_requested

\* C6: when INIT-001 is not FAIL, every suite after lifecycle that is selected
\* and passes its gate has been executed by the time the run is over, whatever
\* the other checks' outcomes.
C6_OtherOutcomesDoNotStopRun ==
    (/\ r_pc \in {"returned", "raised"}
     /\ "lifecycle" \in ExecutedSet
     /\ ~Init001Failed) =>
        \A name \in {"jsonrpc", "tools", "resources", "prompts",
                     "notifications", "tasks", "edge"} :
            Eligible(name) => name \in ExecutedSet

\* C7: no behaviour of the server makes run() raise instead of returning its
\* report.
C7_RunNeverRaises == r_pc # "raised"

\* C9: the executed suites are in the order of _SUITE_ORDER, and the report
\* lists one result per executed suite in that same order.
C9_FixedSuiteOrder ==
    /\ \A i, j \in DOMAIN executed :
          i < j =>
            (CHOOSE k \in DOMAIN _SUITE_ORDER : _SUITE_ORDER[k] = executed[i])
              < (CHOOSE k \in DOMAIN _SUITE_ORDER : _SUITE_ORDER[k] = executed[j])
    /\ Len(report.suites) = Len(executed)
    /\ \A i \in DOMAIN executed :
          Ids(report.suites[i].checks) = Ids(SortedChecks[executed[i]])

\* A run in which all nine suites were executed has returned.
C9_Witness ==
    /\ r_pc = "returned"
    /\ executed = _SUITE_ORDER

\* C10: with a non-empty suite list only listed suites and lifecycle are
\* executed; lifecycle is executed in every run; with no list _should_run_suite
\* holds for every suite, and the suites that have no other gate are executed
\* in a run that is not aborted.
C10_ExplicitListRestrictsSuites ==
    /\ explicitly_requested # {} =>
          ExecutedSet \subseteq explicitly_requested \cup {"lifecycle"}
    /\ r_pc \notin {"auth", "lifecycle"} => "lifecycle" \in ExecutedSet
    /\ explicitly_requested = {} =>
          /\ \A name \in _VALID_SUITE_NAMES : _should_run_suite(name)
          /\ (r_pc = "returned" /\ ~Init001Failed) =>
                {"jsonrpc", "notifications", "edge"} \subseteq ExecutedSet

\* Only tools was listed: lifecycle and tools were executed, nothing else.
C10_Witness ==
    /\ explicitly_requested = {"tools"}
    /\ r_pc = "returned"
    /\ executed = <<"lifecycle", "tools">>

\* The capability keys of the initialize result the server returned.
Advertised ==
    IF /\ init_end # <<>>
       /\ init_end[1].initialize.kind = "result"
       /\ init_end[1].initialize.capabilities.kind = "object"
    THEN init_end[1].initialize.capabilities.keys
    ELSE {}

\* C11: at the end of a run that was not aborted, tools, resources, prompts and
\* tasks have each been executed iff selected and (advertised or explicitly
\* listed); jsonrpc, notifications and edge have been executed iff selected.
C11_GatedByCapabilityOrRequest ==
    (/\ r_pc \in {"returned", "raised"}
     /\ "lifecycle" \in ExecutedSet
     /\ ~Init001Failed) =>
        /\ \A name \in {"tools", "resources", "prompts", "tasks"} :
              name \in ExecutedSet <=>
                /\ _should_run_suite(name)
                /\ name \in Advertised \/ name \in explicitly_requested
        /\ \A name \in {"jsonrpc", "notifications", "edge"} :
              name \in ExecutedSet <=> _should_run_suite(name)

\* The tools suite has run and its TOOL-001 result is PASS.
Tool001Passed ==
    \E i \in DOMAIN executed :
        /\ executed[i] = "tools"
        /\ HasStatus(report.suites[i], "TOOL", 1, "PASS")

\* C12: the tool list the tasks and edge suites were constructed with is the
\* list TOOL-001 stored when TOOL-001 ended in PASS, and the empty list when
\* the tools suite did not run or TOOL-001 did not end in PASS.
C12_DiscoveredToolsHandedOn ==
    \A i \in DOMAIN handed :
        handed[i].suite \in {"tasks", "edge"} =>
            handed[i].items = IF Tool001Passed THEN suite_tools ELSE <<>>

\* TOOL-001 passed with a non-empty list and both tasks and edge received it.
C12_Witness ==
    /\ r_pc = "returned"
    /\ Tool001Passed
    /\ suite_tools # <<>>
    /\ \E i, j \in DOMAIN handed :
          /\ handed[i] = [suite |-> "tasks", items |-> suite_tools]
          /\ handed[j] = [suite |-> "edge", items |-> suite_tools]

(***************************************************************************)
(* Claims about compute_exit_code (specification SpecExit).                *)
(***************************************************************************)
\* C8: the exit code is 1 iff some check of the report is FAIL at CRITICAL or
\* ERROR, or strict is set and some check is FAIL at WARNING or WARN at
\* CRITICAL, ERROR or WARNING; otherwise 0.  The condition reads only the set
\* of (status, severity) pairs, so neither order nor any other field matters.
C8_ExitCodeCharacterised ==
    exit_code # <<>> =>
        LET pairs == UNION { { <<e_report.suites[i].checks[j].status,
                                 e_report.suites[i].checks[j].severity>> :
                                 j \in DOMAIN e_report.suites[i].checks } :
                             i \in DOMAIN e_report.suites }
            failing ==
                \/ \E sev \in {"CRITICAL", "ERROR"} : <<"FAIL", sev>> \in pairs
                \/ /\ e_strict
                   /\ \/ <<"FAIL", "WARNING">> \in pairs
                      \/ \E sev \in {"CRITICAL", "ERROR", "WARNING"} : <<"WARN", sev>> \in pairs
        IN  exit_code = << IF failing THEN 1 ELSE 0 >>

\* Under strict, a report whose first suite holds FAIL at INFO and whose second
\* holds WARN at WARNING gave exit code 1.
C8_Witness ==
    /\ exit_code = <<1>>
    /\ e_strict
    /\ Len(e_report.suites[1].checks) = 1
    /\ e_report.suites[1].checks[1].status = "FAIL"
    /\ e_report.suites[1].checks[1].severity = "INFO"
    /\ Len(e_report.suites[2].checks) = 1
    /\ e_report.suites[2].checks[1].status = "WARN"
    /\ e_report.suites[2].checks[1].severity = "WARNING"

(***************************************************************************)
(* Claims about the client (specification SpecClient).                     *)
(***************************************************************************)
\* The id-less messages among `msgs`, in order.
NotificationsOf(msgs) == SelectSeq(msgs, LAMBDA m : ~HasId(m))

\* C3: a message returned by a request (or by an id-bearing send_raw) carries
\* the id of the message that was sent, whatever notifications and responses
\* with other ids the transport delivered first; a message with another id is
\* never what is returned.
C3_ReturnedIdIsRequestId ==
    (c_pc = "returned" /\ returned # ReturnedNone) =>
        /\ HasId(returned)
        /\ HasId(sent[Len(sent)])
        /\ returned.id = sent[Len(sent)].id
        /\ returned = delivered[Len(delivered)]

\* Request 2 returned its response after the transport delivered a notification
\* and the (stale) response to request 1.
C3_Witness ==
    /\ c_pc = "returned"
    /\ c_op = "request"
    /\ returned # ReturnedNone
    /\ returned.id = 2
    /\ \E i, j \in 1..Len(delivered) :
          /\ ~HasId(delivered[i])
          /\ HasId(delivered[j]) /\ delivered[j].id = 1

\* C4: the notifications log is exactly the id-less messages the transport
\* delivered, in arrival order, none lost or duplicated, and an id-less message
\* is never returned as a response.
C4_NotificationsBufferedInOrder ==
    /\ received_notifications = NotificationsOf(delivered)
    /\ returned # ReturnedNone => HasId(returned)

\* Two different notifications arrived while a request was waiting, and the
\* request then returned its response.
C4_Witness ==
    /\ c_pc = "returned"
    /\ returned # ReturnedNone
    /\ Len(received_notifications) = 2
    /\ received_notifications[1] # received_notifications[2]
    /\ delivered[Len(delivered)] = returned

\* C15: the i-th id the client assigns is i: the counter starts at 1 and is
\* one more than the number of ids assigned, also after requests that ended
\* in a timeout, a closed connection or a failed send, and the requests sent
\* carry pairwise different ids.
C15_RequestIdsCountFromOne ==
    /\ \A i \in DOMAIN assigned : assigned[i] = i
    /\ next_id = Len(assigned) + 1
    /\ \A i, j \in DOMAIN sent :
          (/\ i < j
           /\ sent[i] \notin RawMessages
           /\ sent[j] \notin RawMessages) => sent[i].id < sent[j].id

\* Request 1 ended without a response (nothing was ever delivered) and
\* request 2 is waiting with id 2.
C15_Witness ==
    /\ sent = << Request(1, "tools/list"), Request(2, "tools/list") >>
    /\ assigned = <<1, 2>>
    /\ delivered = <<>>
    /\ c_pc = "waiting"

\* C17: send_raw hands the message to the transport whether or not it has an
\* id; without an id it returns None and has read nothing from the transport;
\* with an id it returns the first message read that carries that id, every
\* message read before it being id-less (and buffered) or carrying another
\* id, and it returns None, never raising, when a read times out.
C17_SendRawReturnsMatchOrNone ==
    LET message == sent[Len(sent)]
        last == c_recv[Len(c_recv)]
        IsMessage(r) == "jsonrpc" \in DOMAIN r
        Buffer == SelectSeq(c_recv, LAMBDA r : IsMessage(r) /\ ~HasId(r))
        n == Len(received_notifications)
    IN  c_op = "raw" =>
          /\ message \in RawMessages
          /\ ~HasId(message) =>
                c_recv = <<>> /\ c_pc = "returned" /\ returned = ReturnedNone
          /\ HasId(message) =>
                /\ \A i \in 1..(Len(c_recv) - 1) :
                      IsMessage(c_recv[i]) /\ (HasId(c_recv[i]) => c_recv[i].id # message.id)
                /\ Len(Buffer) <= n /\ Buffer = SubSeq(received_notifications, n - Len(Buffer) + 1, n)
                /\ (c_pc = "waiting" /\ c_recv # <<>>) =>
                      IsMessage(last) /\ (HasId(last) => last.id # message.id)
                /\ c_pc = "returned" =>
                      /\ c_recv # <<>>
                      /\ IF IsMessage(last)
                         THEN HasId(last) /\ last.id = message.id /\ returned = last
                         ELSE last.raised = "TimeoutError" /\ returned = ReturnedNone
                /\ c_pc = "raised" =>
                      c_recv # <<>> /\ ~IsMessage(last) /\ last.raised # "TimeoutError"

\* A send_raw with an id returned None after a timeout that followed a
\* notification and a response to another id.
C17_Witness ==
    /\ c_op = "raw"
    /\ c_pc = "returned"
    /\ returned = ReturnedNone
    /\ Len(c_recv) = 3
    /\ ~HasId(c_recv[1])
    /\ HasId(c_recv[2])
    /\ c_recv[3] = [raised |-> "TimeoutError"]

(***************************************************************************)
(* Claims about the harness (specification SpecHarness).                   *)
(***************************************************************************)
\* The number of results in `crs` that carry the identifier `id`.
CountOf(crs, id) == Cardinality({j \in 1..Len(crs) : crs[j].check_id = id})

\* C1: whatever way the check bodies end (a result, nothing, a skip, any
\* Exception), the SuiteResult that run() returns holds exactly one CheckResult
\* for each check the suite declares, and nothing else; while the loop runs,
\* every check executed so far has exactly one result.
C1_ExactlyOneResultPerCheck ==
    /\ h_pc = "loop" =>
          /\ Len(results) = Len(ends)
          /\ \A i \in 1..Len(ends) : CountOf(results, checks[i].check_id) = 1
    /\ h_pc = "returned" =>
          /\ Len(suite_result.checks) = Len(Declared(suite))
          /\ \A i \in 1..Len(Declared(suite)) :
                CountOf(suite_result.checks, Declared(suite)[i].check_id) = 1

\* A returned lifecycle run in which one body raised, one skipped and one returned nothing.
C1_Witness ==
    /\ h_pc = "returned"
    /\ suite = "lifecycle"
    /\ \E i, j \in 1..Len(ends) :
          /\ ends[i].kind = "raise"
          /\ ends[j].kind \in {"skip", "none"}

\* C2: the recorded status and detail depend only on how the body ended: a
\* returned result keeps its status and detail, no result gives PASS, a skip
\* gives SKIP with its reason (no detail when the reason is empty), any other
\* Exception gives FAIL with the exception's string form; and after each of
\* these the harness has not stopped: it is still in the loop or has run every check.
C2_StatusFollowsBodyEnd ==
    \A i \in 1..Len(ends) :
        CaughtByHarness(ends[i]) =>
            /\ i <= Len(results)
            /\ LET e == ends[i]
                   r == results[i]
               IN  /\ e.kind = "return" =>
                          r.status = e.result.status /\ r.details = e.result.details
                   /\ e.kind = "none" => r.status = "PASS" /\ r.details = None
                   /\ e.kind = "skip" =>
                          /\ r.status = "SKIP"
                          /\ r.details = (IF e.reason = "" THEN None ELSE e.reason)
                   /\ e.kind = "raise" => r.status = "FAIL" /\ r.details = e.str
            /\ i < Len(checks) => (Len(ends) > i \/ h_pc = "loop")
            /\ h_pc = "returned" => Len(ends) = Len(checks)

\* A run in which a check raised a timeout, was recorded FAIL, and a later check ran and passed.
C2_Witness ==
    \E i \in 1..Len(ends) :
        /\ ends[i] = TimeoutError
        /\ results[i].status = "FAIL"
        /\ Len(ends) > i
        /\ ends[i + 1] = Skips("reason")
        /\ results[i + 1].details = "reason"

\* C13: the checks of a suite run one at a time, each after the previous one
\* has recorded its result, in ascending order of check identifier, and the
\* SuiteResult lists the results in that order; in lifecycle INIT-001 runs
\* before INIT-005, which runs before INIT-006.
C13_ChecksRunInIdentifierOrder ==
    /\ h_pc # "raised" => Len(results) = Len(ends)
    /\ \A i \in DOMAIN results : results[i].check_id = checks[i].check_id
    /\ \A i, j \in DOMAIN results :
          i < j => IdLess(results[i].check_id, results[j].check_id)
    /\ h_pc = "returned" => suite_result.checks = results
    /\ suite = "lifecycle" =>
          \A i, j \in DOMAIN results :
              \/ /\ results[i].check_id = <<"INIT", 1>>
                 /\ results[j].check_id = <<"INIT", 5>>
              \/ /\ results[i].check_id = <<"INIT", 5>>
                 /\ results[j].check_id = <<"INIT", 6>>
              => i < j

\* The lifecycle suite, whose class declares INIT-005 and INIT-006 first, has
\* returned with INIT-001 first and INIT-005, INIT-006 last.
C13_Witness ==
    /\ h_pc = "returned"
    /\ suite = "lifecycle"
    /\ Declared(suite)[1].check_id = <<"INIT", 5>>
    /\ suite_result.checks[1].check_id = <<"INIT", 1>>
    /\ suite_result.checks[5].check_id = <<"INIT", 5>>
    /\ suite_result.checks[6].check_id = <<"INIT", 6>>

(***************************************************************************)
(* Claims about MCPClient.initialize (specification SpecInitialize).       *)
(***************************************************************************)

\* C16: a call of initialize sends the initialize request first and nothing
\* else while it waits for the response; a call that returns has received a
\* response, has recorded serverInfo and capabilities from its result (both
\* as they were before the call when the response has no result), and has
\* then sent notifications/initialized exactly once; a call whose wait for the
\* response failed has changed neither field and has sent no
\* notifications/initialized.
C16_InitializeThenNotify ==
    LET Notification == [jsonrpc |-> "2.0", method |-> "notifications/initialized"]
        InCall == SubSeq(sent, i_before.sent + 1, Len(sent))
        IsRequest(m) == /\ DOMAIN m = {"jsonrpc", "id", "method", "params"}
                        /\ m.method = "initialize"
                        /\ m.id = next_id - 1
    IN  i_pc # "idle" =>
          /\ i_pc = "waiting" => Len(InCall) = 1 /\ IsRequest(InCall[1])
          /\ i_pc = "returned" =>
                /\ Len(InCall) = 2 /\ IsRequest(InCall[1]) /\ InCall[2] = Notification
                /\ i_resp # <<>>
                /\ IF "result" \in DOMAIN i_resp[1]
                   THEN /\ server_info =
                             (IF "serverInfo" \in DOMAIN i_resp[1].result
                              THEN i_resp[1].result.serverInfo ELSE None)
                        /\ capabilities =
                             (IF "capabilities" \in DOMAIN i_resp[1].result
                              THEN i_resp[1].result.capabilities ELSE Object({}, FALSE))
                   ELSE /\ server_info = i_before.server_info
                        /\ capabilities = i_before.capabilities
          /\ i_resp = <<>> =>
                /\ server_info = i_before.server_info
                /\ capabilities = i_before.capabilities
                /\ \A i \in 1..Len(InCall) : InCall[i] # Notification

\* A second call has returned after a result that holds serverInfo and
\* capabilities, each call having sent its request and its notification.
C16_Witness ==
    /\ i_pc = "returned"
    /\ next_id = 3
    /\ Len(sent) = 4
    /\ "result" \in DOMAIN i_resp[1]
    /\ {"serverInfo", "capabilities"} \subseteq DOMAIN i_resp[1].result
    /\ capabilities # i_before.capabilities

(***************************************************************************)
(* Claims about StdioTransport (specification SpecStdio).                  *)
(***************************************************************************)

\* C18: the messages receive has returned are exactly the JSON lines among
\* the lines read from the child, in the order the child wrote them and each
\* once; non_json_lines counts exactly the lines read that are neither blank
\* nor JSON, and reading such a line does not end the call; once a call has
\* raised the connection-closed failure at end-of-stream, no call returns a
\* message.
C18_ReceiveReturnsJsonLinesInOrder ==
    LET IsJson(line) == line.kind \in {"json", "oversize_json"}
        NotJson(line) == line.kind \in {"text", "undecodable"}
        Returned(o) == "returned" \in DOMAIN o
        Messages == [i \in 1..Len(SelectSeq(t_out, Returned)) |->
                        SelectSeq(t_out, Returned)[i].returned]
    IN  /\ Messages = SelectSeq(t_read, IsJson)
        /\ non_json_lines = Len(SelectSeq(t_read, NotJson))
        /\ \A i \in 1..Len(t_out) :
              ~Returned(t_out[i]) => t_out[i].raised \in {"TimeoutError", "ConnectionError"}
        /\ \A i, j \in 1..Len(t_out) :
              (i < j /\ ~Returned(t_out[i]) /\ t_out[i].raised = "ConnectionError")
                  => ~Returned(t_out[j])

\* C19: a stop of a started transport tries SIGTERM first and tries SIGKILL
\* after it only when the child took GracePeriod seconds or more to exit or
\* the SIGTERM could not be delivered; when stop has returned, the child has
\* exited, return_code holds its exit code, the stderr reader has finished
\* and is_running is false.
C19_StopTerminatesThenKills ==
    st_pc # "idle" =>
        /\ Len(signals) \in {1, 2}
        /\ signals[1].sig = "SIGTERM"
        /\ Len(signals) = 2 =>
              /\ signals[2].sig = "SIGKILL"
              /\ term_delay >= GracePeriod \/ ~signals[1].delivered
        /\ st_pc = "returned" =>
              /\ child = "exited"
              /\ returncode # <<>>
              /\ return_code = returncode
              /\ stderr_task = "finished"
              /\ ~t_running

\* A child that outlived the grace period was killed, and stop returned with
\* the kill's exit code.
C19_Witness ==
    /\ st_pc = "returned"
    /\ term_delay > GracePeriod
    /\ Len(signals) = 2
    /\ signals[2].delivered
    /\ return_code = <<-9>>
    /\ stderr_task = "finished"

(***************************************************************************)
(* Claims about HttpTransport (specification SpecHttp).                    *)
(***************************************************************************)

\* C20: a POST sent after some response carried an Mcp-Session-Id carries
\* the session header with the id of the latest such response, whatever the
\* custom headers are; a POST sent before any did carries a session header
\* only if the custom headers hold one.
C20_SessionIdSentOnLaterPosts ==
    \A k \in 1..Len(posts) :
        LET Carried(i) == responses[i].status = 200 /\ responses[i].session # <<>>
            Before == { i \in 1..(k - 1) : Carried(i) }
            latest == CHOOSE i \in Before : \A j \in Before : j <= i
        IN  IF Before # {}
            THEN /\ "Mcp-session-id" \in DOMAIN posts[k]
                 /\ posts[k]["Mcp-session-id"] = responses[latest].session[1]
            ELSE "Mcp-session-id" \in DOMAIN posts[k] =>
                     \E i \in 1..Len(custom_headers) :
                         custom_headers[i][1] \in {"Mcp-Session-Id", "mcp-session-id"}

\* C21: a send answered with 401 raises AuthRequiredError, which is not
\* ConnectionError; a send answered with another error status, or hit by a
\* network error (no connection, or the connection lost while the response
\* is read), raises ConnectionError; none of these sends has queued a
\* message, and the session id is the one the other sends received last.
C21_AuthRequiredIsNotConnectionError ==
    LET Failed(i) == \/ responses[i].status # 200
                     \/ responses[i].body = "truncated"
        Adopted == { i \in 1..Len(responses) : ~Failed(i) /\ responses[i].session # <<>> }
        latest == CHOOSE i \in Adopted : \A j \in Adopted : j <= i
    IN  /\ \A k \in 1..Len(send_out) :
              /\ responses[k].status = 401 => send_out[k] = "AuthRequiredError"
              /\ (/\ Failed(k)
                  /\ responses[k].status # 401
                  /\ responses[k].status = 0 => responses[k].error = "URLError")
                     => send_out[k] = "ConnectionError"
              /\ Failed(k) => \A i \in 1..Len(pending_messages) : pending_messages[i].post # k
        /\ session_id = IF Adopted = {} THEN <<>> ELSE responses[latest].session

\* C22: the messages receive has returned, followed by those still queued,
\* are exactly the messages decoded from the response bodies, body after body
\* in send order and within an event stream in stream order, each once; data
\* that is not JSON contributes nothing and takes nothing else away.
C22_ReceiveIsFifoOverDecodedMessages ==
    LET Returned(o) == "returned" \in DOMAIN o
        got == SelectSeq(http_out, Returned)
        Decoded(k) ==
            IF responses[k].status = 200
            THEN LET ev == responses[k].events
                 IN  SelectSeq([i \in 1..Len(ev) |-> [post |-> k, n |-> i, json |-> TRUE]],
                               LAMBDA m : ev[m.n])
            ELSE <<>>
        all[k \in 0..Len(responses)] == IF k = 0 THEN <<>> ELSE all[k - 1] \o Decoded(k)
    IN  [i \in 1..Len(got) |-> got[i].returned] \o pending_messages = all[Len(responses)]

\* Two messages were returned in order: the second event of an event stream
\* whose first event was not JSON, then the JSON body of the next response.
C22_Witness ==
    /\ Len(responses) = 2
    /\ responses[1].status = 200 /\ responses[1].events = <<FALSE, TRUE>>
    /\ responses[2].status = 200 /\ responses[2].content_type = "application/json"
    /\ http_out = << [returned |-> [post |-> 1, n |-> 2, json |-> TRUE]],
                     [returned |-> [post |-> 2, n |-> 1, json |-> TRUE]] >>

(***************************************************************************)
(* Claims about the command line (specification SpecCli)                   *)
(***************************************************************************)

C23_Positions(op) == { i \in 1..Len(trace) : trace[i] = op }

\* C23: in a command-line run the main transport is started before the
\* first message is sent, nothing is sent or received on it after stop, and
\* once the try block has been left, by a report, an aborted run, an
\* exception or a cancellation, stop has been called exactly once, after
\* everything else.
C23_StartTrafficStopOnce ==
    /\ \A i \in C23_Positions("send") \cup C23_Positions("receive") :
          /\ \E j \in 1..(i - 1) : trace[j] = "start"
          /\ \A j \in 1..(i - 1) : trace[j] # "stop"
    /\ Cardinality(C23_Positions("stop")) <= 1
    /\ (cli_pc \in {"stopping", "exited"} /\ C23_Positions("start") # {})
          => /\ C23_Positions("start") = {1}
             /\ C23_Positions("stop") = {Len(trace)}

\* A run that raised after traffic on the transport has left, stopped once.
C23_Witness ==
    /\ cli_pc = "exited"
    /\ pending = "Exception"
    /\ C23_Positions("send") # {}
    /\ C23_Positions("receive") # {}
    /\ C23_Positions("stop") = {Len(trace)}

C25_Names ==
    {"lifecycle", "tools", "resources", "prompts", "jsonrpc", "notifications", "tasks", "auth", "edge"}

C25_Unknown == \E i \in 1..Len(cli_suites) : cli_suites[i] \notin C25_Names

\* C25: with a suite name outside the nine valid ones the Runner raises its
\* validation error before the run starts: nothing is ever sent or received
\* on the target and no report is emitted; and when the process has exited
\* without having been interrupted, a transport that was started has been
\* stopped, its child is gone, and the exit code is 2.
C25_UnknownSuiteRejected ==
    C25_Unknown =>
        /\ C23_Positions("send") \cup C23_Positions("receive") = {}
        /\ ~emitted
        /\ pending \in {"nothing", "ValueError"}
        /\ (cli_pc = "exited" /\ interrupts = 0) =>
              /\ sys_exit = <<2>>
              /\ C23_Positions("start") # {} =>
                    /\ pending = "ValueError"
                    /\ C23_Positions("stop") # {}
                    /\ child = "exited"

\* An unknown name next to a valid one: started, stopped, exit code 2.
C25_Witness ==
    /\ cli_suites = <<"tools", "edge_cases">>
    /\ cli_pc = "exited"
    /\ trace = <<"start", "stop">>
    /\ sys_exit = <<2>>

\* C26: once a user interrupt has arrived during a run whose transport was
\* started, the process exits with the main transport stopped, its child
\* gone (killed if it ignored the graceful signal), and with code 130.
C26_InterruptStopsThenExits130 ==
    (cli_pc = "exited" /\ interrupts >= 1 /\ C23_Positions("start") # {}) =>
        /\ C23_Positions("stop") # {}
        /\ child = "exited"
        /\ (term_delay > GracePeriod =>
               \E k \in 1..Len(signals) : signals[k].sig = "SIGKILL")
        /\ sys_exit = <<130>>

(***************************************************************************)
(* Claims about the end of a run (specification SpecWait)                  *)
(***************************************************************************)

\* C24: a run comes to its end whenever every single receive returns a
\* message, times out or reports a closed connection.  Runner.run awaits
\* each request it sends and starts no task of its own, so it comes to its
\* end only if every request that waits for its response stops waiting.
C24_EveryRequestEnds ==
    (c_pc = "waiting") ~> (c_pc \in {"returned", "raised"})

(***************************************************************************)
(* Claims about the report's capabilities (specification Spec)             *)
(***************************************************************************)

\* The top-level capability keys that the initialize result of the run
\* advertised.
C27_Advertised ==
    IF init_end # <<>> /\ init_end[1].initialize.kind = "result"
                       /\ init_end[1].initialize.capabilities.kind = "object"
    THEN init_end[1].initialize.capabilities.keys
         \cap {"tools", "resources", "prompts", "tasks"}
    ELSE {}

\* C27: every report that Runner.run returns, after a complete run or after
\* an abort, has in capabilities exactly the flags tools, resources, prompts
\* and tasks, each true iff the initialize result advertised that key.
C27_ReportCapabilityFlags ==
    r_pc = "returned" =>
        /\ report.capabilities.keys = {"tools", "resources", "prompts", "tasks"}
        /\ report.capabilities.true = C27_Advertised

(***************************************************************************)
(* Claims about parse_sse_stream (specification SpecSse)                   *)
(***************************************************************************)

\* C28: for every sequence xs of events whose data has no embedded blank
\* line, parsing the lines of xs written out per the EventSource convention
\* yields exactly xs.
C28_ParseOfSerializedIsIdentity ==
    (sse_src # <<>> /\ sse_pc = "done") => sse_out = sse_src[1]

\* The round trip for events whose fields have no white space at either end.
C28_HoldsWithoutOuterWhitespace ==
    (/\ sse_src # <<>>
     /\ sse_pc = "done"
     /\ \A k \in 1..Len(sse_src[1]) : strip(sse_src[1][k].data) = sse_src[1][k].data)
        => sse_out = sse_src[1]

\* The lines taken so far without their line ends and without the comments.
C29_Lines ==
    SelectSeq([k \in 1..Len(sse_read) |-> rstrip(sse_read[k])],
              LAMBDA l : ~(l # <<>> /\ l[1] = ":"))

C29_Blanks == { p \in 1..Len(C29_Lines) : C29_Lines[p] = <<>> }

\* The lines between the blank line before position p (or the start) and p.
C29_Block(p) ==
    LET before == { q \in C29_Blanks : q < p }
        from == IF before = {} THEN 1
                ELSE 1 + CHOOSE q \in before : \A r \in before : r <= q
    IN  SubSeq(C29_Lines, from, p - 1)

C29_Field(block, name) == SelectSeq(block, LAMBDA l : l[1] = name)

\* The value of the last line of a block that sets the field, if any.
C29_Last(block, name) ==
    LET ls == C29_Field(block, name)
    IN  IF ls = <<>> THEN <<>> ELSE <<strip(Tail(ls[Len(ls)]))>>

\* The data: values of a block, each on a line of its own.
C29_Joined(block) ==
    LET ls == C29_Field(block, "data:")
        upto[i \in 1..Len(ls)] ==
            IF i = 1 THEN strip(Tail(ls[1]))
            ELSE upto[i - 1] \o <<"\n">> \o strip(Tail(ls[i]))
    IN  upto[Len(ls)]

C29_EventOf(block) ==
    SSEEvent(C29_Last(block, "event:"), C29_Joined(block), C29_Last(block, "id:"))

\* The events of the blocks that end at a blank line among the first p lines
\* and have a data: line, in the order of the input.
C29_Expected ==
    LET upto[p \in 0..Len(C29_Lines)] ==
            IF p = 0 THEN <<>>
            ELSE IF p \in C29_Blanks /\ C29_Field(C29_Block(p), "data:") # <<>>
            THEN Append(upto[p - 1], C29_EventOf(C29_Block(p)))
            ELSE upto[p - 1]
    IN  upto[Len(C29_Lines)]

\* C29: parse_sse_stream ignores the lines that start with ':'; at a blank
\* line it emits an event iff the lines since the blank line before hold a
\* data: line, and that event has only the fields set since then (the data:
\* values joined by a newline, the last event: and id: values or None); the
\* events come in the order of the input.
C29_BlankLineEmitsAndResets ==
    sse_pc = "parsing" =>
        /\ sse_out = C29_Expected
        /\ data_buffer # <<>> <=>
              C29_Field(C29_Block(Len(C29_Lines) + 1), "data:") # <<>>

\* Two events were emitted, the first from a block with event: and id:
\* lines, the second from a block without them.
C29_Witness ==
    /\ sse_pc = "parsing"
    /\ Len(sse_out) = 2
    /\ sse_out[1].event # <<>> /\ sse_out[1].id # <<>>
    /\ sse_out[2].event = <<>> /\ sse_out[2].id = <<>>

(***************************************************************************)
(* Claims about generate_valid_args (specification SpecSchema)             *)
(***************************************************************************)

RECURSIVE C30_NoNone(_)
\* The value is not None and holds no None.
C30_NoNone(value) ==
    /\ value.t # "None"
    /\ value.t \in {"list", "dict"} => \A k \in DOMAIN value.v : C30_NoNone(value.v[k])

RECURSIVE C30_Validates(_, _)
\* The value validates against the schema, as far as the keywords type, enum,
\* minimum, minItems, items, properties and required go.
C30_Validates(value, schema) ==
    LET typ == Get(schema, "type", None)
    IN  /\ "enum" \in DOMAIN schema =>
              \E i \in 1..Len(schema["enum"]) :
                 schema["enum"][i].t = value.t /\ schema["enum"][i].v = value.v
        /\ typ = "string" => value.t = "str"
        /\ typ = "boolean" => value.t = "bool"
        /\ typ = "integer" =>
              /\ value.t = "int"
              /\ "minimum" \in DOMAIN schema => value.v >= schema["minimum"]
        /\ typ = "array" =>
              /\ value.t = "list"
              /\ Len(value.v) >= Get(schema, "minItems", 0)
              /\ "items" \in DOMAIN schema =>
                    \A k \in 1..Len(value.v) : C30_Validates(value.v[k], schema["items"])
        /\ typ = "object" =>
              /\ value.t = "dict"
              /\ Get(schema, "required", {}) \subseteq DOMAIN value.v
              /\ \A name \in DOMAIN value.v \cap DOMAIN Get(schema, "properties", <<>>) :
                    C30_Validates(value.v[name], schema["properties"][name])

\* C30: for an object schema that is not complex and requires properties,
\* generate_valid_args returns None only if a required property is complex,
\* and otherwise an object that validates against the schema (every required
\* property present, each value valid for its schema, also inside nested
\* objects and arrays) and holds no None at any depth.
C30_ValidArgsOrNone ==
    g_args # <<>> =>
        IF g_args[1].t = "None"
        THEN \E name \in DOMAIN g_schema["properties"] \cap g_schema["required"] :
                is_complex_schema(g_schema["properties"][name])
        ELSE /\ g_args[1].t = "dict"
             /\ C30_Validates(g_args[1], g_schema)
             /\ C30_NoNone(g_args[1])

(***************************************************************************)
(* Claims about the stamping of results (specification SpecHarness)        *)
(***************************************************************************)

\* C31: every CheckResult recorded carries the identifier, the description
\* and the severity declared for its check, whatever the result returned by
\* the body held, so the exit code counts it at the declared severity; and
\* the SuiteResult returned holds these results.
C31_ResultsCarryDeclaredMeta ==
    /\ \A i \in 1..Len(results) :
          /\ results[i].check_id = checks[i].check_id
          /\ results[i].description = checks[i].description
          /\ results[i].severity = checks[i].severity
          /\ \A strict \in BOOLEAN :
                Counts(results[i], strict) <=>
                   Counts([results[i] EXCEPT !.severity = checks[i].severity], strict)
    /\ h_pc = "returned" => suite_result.checks = results

\* A check declared CRITICAL returned fail_check, whose severity is INFO and
\* whose identifier is empty, and is recorded as CRITICAL under its identifier.
C31_Witness ==
    \E i \in 1..Len(results) :
        /\ ends[i] = Returns(fail_check("detail"))
        /\ ends[i].result.severity = "INFO"
        /\ ends[i].result.check_id = NoId
        /\ checks[i].severity = "CRITICAL"
        /\ results[i].severity = "CRITICAL"
        /\ results[i].description # <<>>

(***************************************************************************)
(* Claims about the list checks (specification SpecList)                   *)
(***************************************************************************)

\* C32: the pagination check ends in PASS only when the list check followed
\* a cursor and fetched at least a second page through to completion, and
\* in SKIP when the server returned everything in a single page.
C32_PassOnlyIfPaginationExercised ==
    /\ page_check = <<"PASS">> =>
          /\ p_pc = "returned"
          /\ Len(pages) >= 2
          /\ "cursor" \in DOMAIN sent[2].params
    /\ (page_check # <<>> /\ p_pc = "returned" /\ Len(pages) = 1) => page_check = <<"SKIP">>

\* C37: whenever the list check ends in PASS, the list it captures is the
\* list that _paginated_list returns when it is served the same pages, and
\* the two send the same cursors.
C37_ListCheckEqualsPaginatedList ==
    p_pc = "returned" =>
        LET listed == PaginatedOver(pages, p_call[2], None, <<>>)
        IN  /\ listed.returned
            /\ listed.fetched = Len(pages)
            /\ captured = listed.items
            /\ Len(sent) = Len(listed.cursors)
            /\ \A i \in 1..Len(sent) :
                  sent[i].params = Params(listed.cursors[i])

\* Three pages were followed, the second without a list, and the entries of
\* the first and the third page were captured.
C37_Witness ==
    /\ p_pc = "returned"
    /\ Len(pages) = 3
    /\ p_call[2] \notin DOMAIN pages[2].result
    /\ Len(captured) = 2
    /\ sent[2].params # sent[3].params

(***************************************************************************)
(* Claims about TASK-008 (specification SpecTask)                          *)
(***************************************************************************)
C33_Count(method) == Cardinality({ i \in 1..Len(sent) : sent[i].method = method })

C33_Terminal == {"completed", "failed", "cancelled"}

\* C33: TASK-008 polls tasks/get only when the call returned status
\* working, at most three times, and not again after a poll that reported
\* completed, failed or cancelled; it sends tasks/get_result once, as the
\* next request after a poll that reported completed, and in no other case.
C33_PollsThenFetchesIfCompleted ==
    /\ task_status # <<"working">> =>
          C33_Count("tasks/get") = 0 /\ C33_Count("tasks/get_result") = 0
    /\ C33_Count("tasks/get") <= 3
    /\ C33_Count("tasks/get") - Len(polled) \in {0, 1}
    /\ \A i \in 1..(Len(polled) - 1) : polled[i] \notin C33_Terminal
    /\ C33_Count("tasks/get_result") <= 1
    /\ C33_Count("tasks/get_result") = 1 =>
          /\ polled # <<>>
          /\ polled[Len(polled)] = "completed"
          /\ sent[Len(sent)].method = "tasks/get_result"
          /\ C33_Count("tasks/get") = Len(polled)
    /\ (task_pc = "ended" /\ polled # <<>> /\ polled[Len(polled)] = "completed") =>
          C33_Count("tasks/get_result") = 1
    /\ (task_end = <<"PASS">> /\ task_status = <<"working">> /\ Len(polled) < 3) =>
          polled # <<>> /\ polled[Len(polled)] \in C33_Terminal

\* The third poll reported completed and the result was fetched.
C33_Witness ==
    /\ task_end = <<"PASS">>
    /\ polled = <<"working", None, "completed">>
    /\ C33_Count("tasks/get") = 3
    /\ sent[Len(sent)].method = "tasks/get_result"

(***************************************************************************)
(* Claims about SUB-001 and SUB-002 (specification SpecSub)                *)
(***************************************************************************)
\* The server advertised resources.subscribe and RES-001 of the run passed
\* with a list that is not empty.
C34_MaySubscribe ==
    /\ res_caps.kind = "dict"
    /\ res_caps.subscribe = <<TRUE>>
    /\ res_001 = <<"PASS">>
    /\ suite_resources # <<>>

\* C34: resources/subscribe is sent only when the server advertised
\* resources.subscribe and RES-001 passed with a list that is not empty,
\* for the first resource's uri; resources/unsubscribe is sent only after a
\* subscribe that returned no error, for the same uri; otherwise SUB-001
\* and SUB-002 end in SKIP and nothing is sent.
C34_SubscribeOnlyWhenAdvertisedAndListed ==
    /\ \A i \in 1..Len(sent) :
          /\ sent[i].method = "resources/subscribe" =>
                /\ C34_MaySubscribe
                /\ sent[i].params.uri = Get(suite_resources[1], "uri", "")
          /\ sent[i].method = "resources/unsubscribe" =>
                /\ i = 2
                /\ sent[1].method = "resources/subscribe"
                /\ sent[i].params.uri = sent[1].params.uri
                /\ sub_ends[1] = "PASS"
    /\ Len(sent) <= 2
    /\ (~C34_MaySubscribe /\ sub_pc = "ended") => sub_ends = <<"SKIP", "SKIP">> /\ sent = <<>>
    /\ (sub_pc = "ended" /\ sub_ends[1] # "PASS") => sub_ends[2] = "SKIP" /\ Len(sent) <= 1

\* Of two resources the first was subscribed to and unsubscribed from.
C34_Witness ==
    /\ sub_pc = "ended"
    /\ Len(suite_resources) = 2
    /\ Len(sent) = 2
    /\ sent[2].method = "resources/unsubscribe"
    /\ sent[2].params.uri = suite_resources[1].uri
    /\ sub_ends = <<"PASS", "PASS">>

(***************************************************************************)
(* Claims about a receive awaited during stop (specification SpecPending)  *)
(***************************************************************************)

\* C35: a receive that is pending when the transport is stopped does not
\* stay blocked with nothing to wake it, and ends with the connection-closed
\* signal (ConnectionError), on the stdio and on the HTTP transport.
C35_PendingReceiveEndsClosed ==
    /\ ~(StopCalled /\ recv_pc = "pending" /\ ~Readable)
    /\ (recv_pc = "ended" /\ recv_out[1].after_stop) =>
          recv_out[1].end = [raised |-> "ConnectionError"]

\* C35 on the stdio transport, for a child that had written nothing the
\* receive had not read: the receive ends with ConnectionError.
C35_StdioEndsClosed ==
    (pend_kind = "stdio" /\ StopCalled /\ recv_pc # "idle") =>
        /\ Readable
        /\ (recv_pc = "ended" /\ recv_out[1].after_stop /\ t_read = <<>>) =>
              recv_out[1].end = [raised |-> "ConnectionError"]

(***************************************************************************)
(* Claims about the names in the report (specification Spec)               *)
(***************************************************************************)

C40_Aborted ==
    /\ r_pc = "returned"
    /\ executed # <<>>
    /\ executed[Len(executed)] = "lifecycle"
    /\ \E j \in 1..Len(report.suites[Len(executed)].checks) :
          /\ report.suites[Len(executed)].checks[j].check_id = <<"INIT", 1>>
          /\ report.suites[Len(executed)].checks[j].status = "FAIL"

\* C40: when a run is aborted because INIT-001 ended in FAIL,
\* compute_exit_code of the returned report is 1, with strict mode and
\* without.
C40_AbortedRunExitsOne ==
    C40_Aborted =>
        /\ compute_exit_code(report, FALSE) = 1
        /\ compute_exit_code(report, TRUE) = 1

\* An aborted run whose INIT-001 ended by an exception, after the auth suite
\* had run.
C40_Witness ==
    /\ C40_Aborted
    /\ executed = <<"auth", "lifecycle">>
    /\ init_end[1].initialize.kind = "timeout"

(***************************************************************************)
(* Claims about the lifecycle suite (specification SpecLifecycle)          *)
(***************************************************************************)

\* C38: every transport INIT-005 and INIT-006 obtained from the factory has
\* been stopped when the result of its check is recorded, however the check
\* ended, and the two checks send nothing on the main transport and leave
\* the main client's request counter, capabilities and notifications log as
\* they found them.
C38_OwnTransportsStoppedMainUntouched ==
    /\ \A i \in 1..Len(life_results) :
          life_results[i].check \in {5, 6} =>
             \E k \in 1..Len(own) :
                /\ own[k].check = life_results[i].check
                /\ own[k].state = "stopped"
                /\ life_results[i].main = main_before[k]
    /\ \A k \in 1..Len(own) :
          /\ own[k].state = "stopped" \/ (k = Len(own) /\ own_pc \in {"try", "finally"})
          /\ k = Len(own) /\ own_pc # "idle" => MainClient = main_before[k]
    /\ Len(own) <= 2

\* INIT-005 could not start its transport and INIT-006 got its second
\* initialize answered; both results are recorded.
C38_Witness ==
    /\ Len(life_results) = 6
    /\ Len(own) = 2
    /\ own[1].sent = <<>>
    /\ life_results[5].status = "FAIL"
    /\ Len(own[2].sent) = 3
    /\ life_results[6].status = "WARN"
    /\ life_results[1].status = "PASS"

C39_IsRequest(m) == "id" \in DOMAIN m

\* C39: the first message sent on the main transport is the initialize
\* request; every other request sent there comes after
\* notifications/initialized was sent; and when initialize ended without a
\* response nothing more is sent on the main transport in the run.
C39_InitializeFirstThenInitialized ==
    /\ sent # <<>> => C39_IsRequest(sent[1]) /\ sent[1].method = "initialize"
    /\ \A i \in 2..Len(sent) :
          C39_IsRequest(sent[i]) =>
             \E j \in 1..(i - 1) : sent[j].method = "notifications/initialized"
    /\ (i_pc = "raised" /\ i_resp = <<>>) => Len(sent) <= 1

\* A run that went on after lifecycle: the ping of INIT-004 and a later
\* suite's request followed notifications/initialized.
C39_Witness ==
    /\ life_pc = 8
    /\ Len(sent) = 4
    /\ sent[2].method = "notifications/initialized"
    /\ sent[3].method = "ping"
    /\ sent[4].method = "tools/list"

\* initialize timed out and the aborted run has returned.
C39_WitnessNoResponse ==
    /\ life_pc = 8
    /\ i_pc = "raised"
    /\ i_resp = <<>>
    /\ Len(sent) = 1
    /\ Len(life_results) = 6

=============================================================================
